---------------------------- MODULE Spec2Model ----------------------------
(***************************************************************************)
(* A model of pysysconf.py: the PID-stamped lock file (acquire_lock,       *)
(* release_lock), the attribute reconciler (_chkstat, _chkstatsrc) and the *)
(* copy engine (check_copy, _copy_file, _copy_link, _copy_dir, _remove,    *)
(* _rm_tree) over a small filesystem.                                      *)
(***************************************************************************)
EXTENDS Integers, Sequences, FiniteSets, TLC

(***************************************************************************)
(* Bounds of the model.                                                    *)
(***************************************************************************)
\* the process ids are PidBase + 1 and PidBase + 2 (9 and 10: one and two
\* decimal digits); PidBase itself is the id of a process of an earlier run
PidBase == 8
\* the calls of the public functions in one run
MaxCalls == 2

VARIABLES
    \* ---- lock file ----
    lockfile,     \* 0 when lock_name does not exist, else the inode it names
    inodes,       \* inode -> content, a string as a sequence of characters
    alive,        \* the processes that are running
    pc,           \* process -> the line of acquire_lock it is at
    fd,           \* process -> the inode its descriptor is open on (0: none)
    pid,          \* process -> the string read from the lock file (line 114)
    is_running,   \* process -> the local of line 116
    ret,          \* process -> the value its last acquire_lock returned
    \* ---- history of the lock calls (read by the properties only) ----
    entry,        \* process -> the lock file as it was when the call began
    trace,        \* process -> the system calls of its current call
    quiet,        \* process -> no other process touched the file since then
    norelease,    \* process -> no release_lock since its call began
    last,         \* process -> "acq": its last call was an acquire_lock that
                  \* returned True; "acqrel": that, then a release_lock
    after,        \* process -> its current acquire_lock follows an "acqrel"
    \* ---- filesystem ----
    fs,           \* path -> object, for the paths that exist
    now,          \* the clock that stamps the backups
    _HAVE_SELINUX_MODULE,  \* line 46-51: the selinux module was imported
    \* ---- the calls of the public functions ----
    args,         \* the keyword arguments the calls of this run are made with
    ncalls,       \* how many calls were made
    call,         \* the last call: function, value returned, exception that
                  \* escaped, error that was caught and logged, system calls
    before        \* the filesystem as the last call found it

lockvars == <<lockfile, inodes, alive, pc, fd, pid, is_running, ret,
              entry, trace, quiet, norelease, last, after>>

fsvars == <<fs, now, _HAVE_SELINUX_MODULE, args, ncalls, call, before>>

vars == <<lockvars, fsvars>>

\* two independent runs that use the same lock file
Procs == {1, 2}

\* os.getpid() of a process
getpid(p) == PidBase + p

(***************************************************************************)
(* str(n) and int(s) on decimal strings; a string is a sequence of digits. *)
(* int raises ValueError on the empty string.                              *)
(***************************************************************************)
RECURSIVE str(_)
str(n) == IF n < 10 THEN <<n>> ELSE str(n \div 10) \o <<n % 10>>

RECURSIVE int(_)
int(s) == IF Len(s) = 1 THEN s[1]
          ELSE 10 * int(SubSeq(s, 1, Len(s) - 1)) + s[Len(s)]

int_raises(s) == Len(s) = 0

\* exit status of os.system("ps p N"): 0 when process N exists, else 1 << 8
ps_status(n) == IF \E q \in alive : getpid(q) = n THEN 0 ELSE 256

\* the lock file as a call finds it: whether it exists, what it records and
\* whether the process it records is running
Snapshot ==
    IF lockfile = 0
    THEN [exists |-> FALSE, data |-> <<>>, live |-> FALSE]
    ELSE [exists |-> TRUE, data |-> inodes[lockfile],
          live |-> \E q \in alive : inodes[lockfile] = str(getpid(q))]

\* a fresh inode number
NewInode ==
    CHOOSE n \in 1 .. (Cardinality(Procs) + 1) : n \notin DOMAIN inodes

\* the inodes still referenced once the name and the descriptors are as given
Referenced(lf, fds) == {lf} \cup {fds[q] : q \in Procs}

Keep(ino, lf, fds) ==
    [n \in (DOMAIN ino) \cap Referenced(lf, fds) |-> ino[n]]

\* every other process has seen the file touched
Disturb(p) ==
    [q \in Procs |-> IF q = p THEN quiet[q] ELSE FALSE]

(***************************************************************************)
(* acquire_lock, one action per system call.                               *)
(***************************************************************************)
acquire_lock_call(p) ==
    /\ p \in alive
    /\ pc[p] = "idle"
    /\ pc' = [pc EXCEPT ![p] = "l110"]
    /\ entry' = [entry EXCEPT ![p] = Snapshot]
    /\ trace' = [trace EXCEPT ![p] = <<>>]
    /\ quiet' = [quiet EXCEPT ![p] = TRUE]
    /\ norelease' = [norelease EXCEPT ![p] = TRUE]
    /\ after' = [after EXCEPT ![p] = (last[p] = "acqrel")]
    /\ last' = [last EXCEPT ![p] = "other"]
    /\ pid' = [pid EXCEPT ![p] = <<>>]
    /\ is_running' = [is_running EXCEPT ![p] = FALSE]
    /\ ret' = [ret EXCEPT ![p] = FALSE]
    /\ UNCHANGED <<lockfile, inodes, alive, fd>>

\* os.open(lock_name, O_CREAT | O_EXCL | O_RDWR) at line `at`: on to `ok`
\* when the file was created and to `failed` when it raised
open_excl(p, at, ok, failed) ==
    /\ p \in alive
    /\ pc[p] = at
    /\ IF lockfile = 0
       THEN /\ lockfile' = NewInode
            /\ inodes' = (NewInode :> <<>>) @@ inodes
            /\ fd' = [fd EXCEPT ![p] = NewInode]
            /\ pc' = [pc EXCEPT ![p] = ok]
            /\ trace' = [trace EXCEPT ![p] = Append(@, "create:ok")]
            /\ quiet' = Disturb(p)
       ELSE /\ pc' = [pc EXCEPT ![p] = failed]
            /\ trace' = [trace EXCEPT ![p] = Append(@, "create:EEXIST")]
            /\ UNCHANGED <<lockfile, inodes, fd, quiet>>
    /\ UNCHANGED <<alive, pid, is_running, ret, entry, norelease, last, after>>

\* line 110
acquire_lock_open(p) == open_excl(p, "l110", "l128", "l113")

\* lines 113-115: open(lock_name), read(), close(); when the file is gone
\* the handler of line 124 returns False
acquire_lock_read(p) ==
    /\ p \in alive
    /\ pc[p] = "l113"
    /\ IF lockfile = 0
       THEN /\ pc' = [pc EXCEPT ![p] = "done"]
            /\ trace' = [trace EXCEPT ![p] = Append(@, "read:ENOENT")]
            /\ pid' = pid
       ELSE /\ pid' = [pid EXCEPT ![p] = inodes[lockfile]]
            /\ pc' = [pc EXCEPT ![p] = "l118"]
            /\ trace' = [trace EXCEPT ![p] = Append(@, "read:ok")]
    /\ UNCHANGED <<lockfile, inodes, alive, fd, is_running, ret, entry, quiet,
                   norelease, last, after>>

\* lines 116-121: is_running becomes True when ps exits non-zero; a pid that
\* does not parse is passed over
acquire_lock_ps(p) ==
    /\ p \in alive
    /\ pc[p] = "l118"
    /\ is_running' = [is_running EXCEPT ![p] =
                         IF int_raises(pid[p]) THEN FALSE
                         ELSE ps_status(int(pid[p])) # 0]
    /\ pc' = [pc EXCEPT ![p] = "l122"]
    /\ trace' = [trace EXCEPT ![p] = Append(@, "ps")]
    /\ UNCHANGED <<lockfile, inodes, alive, fd, pid, ret, entry, quiet,
                   norelease, last, after>>

\* a reclaim that trusts is_running: the file is left alone, and the call
\* fails, when line 119 set the flag
acquire_lock_unlink_if_not_running(p) ==
    /\ p \in alive
    /\ pc[p] = "l122"
    /\ IF lockfile = 0 \/ is_running[p]
       THEN /\ pc' = [pc EXCEPT ![p] = "done"]
            /\ trace' = [trace EXCEPT ![p] = Append(@, "unlink:skipped")]
            /\ UNCHANGED <<lockfile, inodes, quiet>>
       ELSE /\ lockfile' = 0
            /\ inodes' = Keep(inodes, 0, fd)
            /\ pc' = [pc EXCEPT ![p] = "l123"]
            /\ trace' = [trace EXCEPT ![p] = Append(@, "unlink:ok")]
            /\ quiet' = Disturb(p)
    /\ UNCHANGED <<alive, fd, pid, is_running, ret, entry, norelease, last,
                   after>>

\* line 122: os.unlink(lock_name), whatever is_running says
acquire_lock_unlink(p) ==
    /\ p \in alive
    /\ pc[p] = "l122"
    /\ IF lockfile = 0
       THEN /\ pc' = [pc EXCEPT ![p] = "done"]
            /\ trace' = [trace EXCEPT ![p] = Append(@, "unlink:ENOENT")]
            /\ UNCHANGED <<lockfile, inodes, quiet>>
       ELSE /\ lockfile' = 0
            /\ inodes' = Keep(inodes, 0, fd)
            /\ pc' = [pc EXCEPT ![p] = "l123"]
            /\ trace' = [trace EXCEPT ![p] = Append(@, "unlink:ok")]
            /\ quiet' = Disturb(p)
    /\ UNCHANGED <<alive, fd, pid, is_running, ret, entry, norelease, last,
                   after>>

\* line 123: the one retry; when it raises the handler of line 124 returns
\* False
acquire_lock_retry(p) == open_excl(p, "l123", "l128", "done")

\* lines 128-137: os.write(fd, str(os.getpid())), os.close(fd), return True
acquire_lock_write(p) ==
    /\ p \in alive
    /\ pc[p] = "l128"
    /\ LET written == [inodes EXCEPT ![fd[p]] = @ \o str(getpid(p))]
           closed == [fd EXCEPT ![p] = 0]
       IN /\ inodes' = Keep(written, lockfile, closed)
          /\ fd' = closed
    /\ pc' = [pc EXCEPT ![p] = "done"]
    /\ ret' = [ret EXCEPT ![p] = TRUE]
    /\ last' = [last EXCEPT ![p] = "acq"]
    /\ trace' = [trace EXCEPT ![p] = Append(@, "write")]
    /\ quiet' = Disturb(p)
    /\ UNCHANGED <<lockfile, alive, pid, is_running, entry, norelease, after>>

\* the caller goes on with the value returned
acquire_lock_return(p) ==
    /\ p \in alive
    /\ pc[p] = "done"
    /\ pc' = [pc EXCEPT ![p] = "idle"]
    /\ UNCHANGED <<lockfile, inodes, alive, fd, pid, is_running, ret, entry,
                   trace, quiet, norelease, last, after>>

(***************************************************************************)
(* release_lock: os.unlink(lock_name); an EnvironmentError is logged.      *)
(***************************************************************************)
\* a release that deletes the file only when it records the caller's pid
release_lock_if_own(p) ==
    /\ p \in alive
    /\ pc[p] = "idle"
    /\ LET own == lockfile # 0 /\ inodes[lockfile] = str(getpid(p))
       IN /\ lockfile' = IF own THEN 0 ELSE lockfile
          /\ inodes' = Keep(inodes, lockfile', fd)
    /\ entry' = [entry EXCEPT ![p] = Snapshot]
    /\ trace' = [trace EXCEPT ![p] =
                    <<IF lockfile = 0 THEN "release:ENOENT" ELSE "release:ok">>]
    /\ quiet' = [q \in Procs |-> q = p]
    /\ norelease' = [q \in Procs |-> FALSE]
    /\ last' = [last EXCEPT ![p] = IF @ = "acq" THEN "acqrel" ELSE "other"]
    /\ UNCHANGED <<alive, pc, fd, pid, is_running, ret, after>>

release_lock(p) ==
    /\ p \in alive
    /\ pc[p] = "idle"
    /\ lockfile' = 0
    /\ inodes' = Keep(inodes, 0, fd)
    /\ entry' = [entry EXCEPT ![p] = Snapshot]
    /\ trace' = [trace EXCEPT ![p] =
                    <<IF lockfile = 0 THEN "release:ENOENT" ELSE "release:ok">>]
    /\ quiet' = [q \in Procs |-> q = p]
    /\ norelease' = [q \in Procs |-> FALSE]
    /\ last' = [last EXCEPT ![p] = IF @ = "acq" THEN "acqrel" ELSE "other"]
    /\ UNCHANGED <<alive, pc, fd, pid, is_running, ret, after>>

\* a process ends (its descriptor is closed); its lock file stays behind
Die(p) ==
    /\ p \in alive
    /\ alive' = alive \ {p}
    /\ pc' = [pc EXCEPT ![p] = "dead"]
    /\ fd' = [fd EXCEPT ![p] = 0]
    /\ inodes' = Keep(inodes, lockfile, [fd EXCEPT ![p] = 0])
    /\ pid' = [pid EXCEPT ![p] = <<>>]
    /\ is_running' = [is_running EXCEPT ![p] = FALSE]
    /\ ret' = [ret EXCEPT ![p] = FALSE]
    /\ trace' = [trace EXCEPT ![p] = <<>>]
    /\ quiet' = [quiet EXCEPT ![p] = FALSE]
    /\ norelease' = [norelease EXCEPT ![p] = FALSE]
    /\ last' = [last EXCEPT ![p] = "other"]
    /\ after' = [after EXCEPT ![p] = FALSE]
    /\ UNCHANGED <<lockfile, entry>>

\* the lock file is absent, or was left behind by process PidBase, which is
\* no longer running
LockInit ==
    /\ \/ lockfile = 0 /\ inodes = <<>>
       \/ lockfile = 1 /\ inodes = (1 :> str(PidBase))
    /\ alive = Procs
    /\ pc = [p \in Procs |-> "idle"]
    /\ fd = [p \in Procs |-> 0]
    /\ pid = [p \in Procs |-> <<>>]
    /\ is_running = [p \in Procs |-> FALSE]
    /\ ret = [p \in Procs |-> FALSE]
    /\ entry = [p \in Procs |->
                   [exists |-> FALSE, data |-> <<>>, live |-> FALSE]]
    /\ trace = [p \in Procs |-> <<>>]
    /\ quiet = [p \in Procs |-> FALSE]
    /\ norelease = [p \in Procs |-> FALSE]
    /\ last = [p \in Procs |-> "other"]
    /\ after = [p \in Procs |-> FALSE]
    /\ fs = <<>>
    /\ now = 0
    /\ _HAVE_SELINUX_MODULE = FALSE
    /\ args = <<>>
    /\ ncalls = 0
    /\ call = <<>>
    /\ before = <<>>

LockNext ==
    \E p \in Procs :
        \/ acquire_lock_call(p) /\ UNCHANGED fsvars
        \/ acquire_lock_open(p) /\ UNCHANGED fsvars
        \/ acquire_lock_read(p) /\ UNCHANGED fsvars
        \/ acquire_lock_ps(p) /\ UNCHANGED fsvars
        \/ acquire_lock_unlink(p) /\ UNCHANGED fsvars
        \/ acquire_lock_retry(p) /\ UNCHANGED fsvars
        \/ acquire_lock_write(p) /\ UNCHANGED fsvars
        \/ acquire_lock_return(p) /\ UNCHANGED fsvars
        \/ release_lock(p) /\ UNCHANGED fsvars
        \/ Die(p) /\ UNCHANGED fsvars

LockSpec == LockInit /\ [][LockNext]_vars

(***************************************************************************)
(* The lock claims.                                                        *)
(***************************************************************************)
\* the call of p has returned and nobody else touched the file meanwhile
ReturnedQuiet(p) == pc[p] = "done" /\ quiet[p]

\* C1: acquire_lock on a lock file that exists and records the pid of a
\* running process returns False, and the file still exists and still
\* records that pid.
C1_LiveLockRefused ==
    \A p \in Procs :
        (/\ ReturnedQuiet(p)
         /\ entry[p].exists
         /\ \E q \in alive : entry[p].data = str(getpid(q)))
        => /\ ret[p] = FALSE
           /\ lockfile # 0
           /\ inodes[lockfile] = entry[p].data

\* p was told True and no release_lock ran since its call began
Holds(p) ==
    p \in alive /\ pc[p] \in {"done", "idle"} /\ ret[p] /\ norelease[p]

\* C2: of two running processes that call acquire_lock on the same path
\* with no release_lock in between, at most one is told True.
C2_AtMostOneHolder ==
    \A p, q \in Procs : (Holds(p) /\ Holds(q)) => p = q

\* the call of p found a file that records a process that is not running
FoundStale(p) ==
    entry[p].exists /\ ~entry[p].live /\ entry[p].data # <<>>

\* C3: acquire_lock on a lock file that records the pid of a process that
\* no longer runs deletes the file, retries the exclusive create once,
\* returns True and leaves the caller's own pid in the file; a call whose
\* retry fails returns False after that one retry.
C3_StaleLockReclaimed ==
    \A p \in Procs :
        /\ (ReturnedQuiet(p) /\ FoundStale(p))
           => /\ trace[p] = <<"create:EEXIST", "read:ok", "ps", "unlink:ok",
                              "create:ok", "write">>
              /\ ret[p] = TRUE
              /\ lockfile # 0
              /\ inodes[lockfile] = str(getpid(p))
        /\ (pc[p] = "done" /\ Len(trace[p]) >= 5
                /\ trace[p][5] = "create:EEXIST")
           => /\ ret[p] = FALSE
              /\ Len(trace[p]) = 5

C3_Witness ==
    \E p \in Procs : ReturnedQuiet(p) /\ FoundStale(p) /\ ret[p]

\* C4: after acquire_lock returned True and release_lock ran, the lock
\* file is gone and the next acquire_lock returns True; release_lock
\* deletes the file whatever pid it records.
C4_ReleaseThenAcquire ==
    \A p \in Procs :
        /\ (p \in alive /\ pc[p] = "idle" /\ quiet[p] /\ Len(trace[p]) = 1
                /\ trace[p][1] \in {"release:ok", "release:ENOENT"})
           => lockfile = 0
        /\ (ReturnedQuiet(p) /\ after[p] /\ ~entry[p].exists)
           => ret[p] = TRUE

C4_Witness ==
    \E p \in Procs :
        ReturnedQuiet(p) /\ after[p] /\ ~entry[p].exists /\ ret[p]


(***************************************************************************)
(* The filesystem.  A path is a sequence of names; a name is a base string *)
(* followed by the time stamps that backups appended to it ("a" is <<"a">>,*)
(* "a.<iso time 3>" is <<"a", 3>>).  fs maps every existing path to its    *)
(* object: kind "reg", "lnk", "dir" or another ("fifo", a named pipe),     *)
(* data (the bytes of a regular file, the target path of a symlink), uid,  *)
(* gid, the 12 permission bits and the SELinux context, a string kept as   *)
(* the sequence of its ":"-separated parts.                                *)
(***************************************************************************)
\* Python's None where an integer is expected
None == -1

\* a perm that is neither an integer nor a string (lines 1320-1323), such as
\* a float
BadPerm == -2

\* Python's None where a string is expected
NoneStr == <<>>

Node(k, d, u, g, m, l) ==
    [kind |-> k, data |-> d, uid |-> u, gid |-> g, perm |-> m, label |-> l]

\* what the kernel gives a new object: the process runs as root with umask 022
DefaultLabel == <<"system_u", "object_r", "default_t", "s0">>

NewNode(k, d) ==
    Node(k, d, 0, 0,
         CASE k = "dir" -> \o755 [] k = "lnk" -> \o777 [] OTHER -> \o644,
         DefaultLabel)

IsPrefix(p, q) == Len(p) <= Len(q) /\ SubSeq(q, 1, Len(p)) = p

\* os.path.join(dir, name)
join(p, n) == Append(p, n)

dirname(p) == SubSeq(p, 1, Len(p) - 1)

\* os.listdir(p): the names in directory p
listdir(fs_, p) ==
    {q[Len(q)] : q \in {r \in DOMAIN fs_ : Len(r) = Len(p) + 1 /\ IsPrefix(p, r)}}

\* the order of Python strings on the names of the model: base strings in
\* alphabetical order, a name before the names it is a proper prefix of
BaseOrder == <<"a", "b", "c", "dst", "l", "src", "tgt", "z">>

Rank(b) == CHOOSE i \in 1 .. Len(BaseOrder) : BaseOrder[i] = b

RECURSIVE SeqLess(_, _)
SeqLess(a, b) ==
    IF Len(a) = 0 THEN Len(b) > 0
    ELSE IF Len(b) = 0 THEN FALSE
    ELSE IF a[1] # b[1] THEN a[1] < b[1]
    ELSE SeqLess(Tail(a), Tail(b))

NameLess(a, b) ==
    IF a[1] # b[1] THEN Rank(a[1]) < Rank(b[1])
    ELSE SeqLess(Tail(a), Tail(b))

\* list.sort() of a directory listing
RECURSIVE sort(_)
sort(S) ==
    IF S = {} THEN <<>>
    ELSE LET m == CHOOSE x \in S : \A y \in S \ {x} : NameLess(x, y)
         IN <<m>> \o sort(S \ {m})

\* a & b on permission bits
RECURSIVE BitAnd(_, _)
BitAnd(a, b) ==
    IF a = 0 \/ b = 0 THEN 0
    ELSE 2 * BitAnd(a \div 2, b \div 2) + (a % 2) * (b % 2)

\* the path a system call that follows symlinks ends at (it may not exist);
\* <<>> when the links do not end (ELOOP)
RECURSIVE Follow(_, _, _)
Follow(fs_, p, n) ==
    IF p \in DOMAIN fs_ /\ fs_[p].kind = "lnk"
    THEN IF n = 0 THEN <<>> ELSE Follow(fs_, fs_[p].data, n - 1)
    ELSE p

Resolve(fs_, p) == Follow(fs_, p, Cardinality(DOMAIN fs_))

(***************************************************************************)
(* The functions of the module thread a state st = [fs, now, ev] (the      *)
(* filesystem, the clock, the system calls made so far) and return         *)
(* [st, val, exc]: the state, the value returned and the exception raised  *)
(* ("none", "EnvironmentError", "PysysconfError", or "NameError" and       *)
(* "TypeError", which no function of the module catches).                  *)
(***************************************************************************)
Ok(st, v) == [st |-> st, val |-> v, exc |-> "none"]

Raise(st, e) == [st |-> st, val |-> FALSE, exc |-> e]

\* the call op on p was made and left st; when the run is one that is
\* stopped after halt calls, snap keeps the filesystem as call halt left it
Did(st, op, p) ==
    IF "halt" \in DOMAIN st /\ Len(st.ev) + 1 = st.halt
    THEN [st EXCEPT !.ev = Append(@, <<op, p>>), !.snap = st.fs]
    ELSE [st EXCEPT !.ev = Append(@, <<op, p>>)]

Remove1(fs_, p) == [q \in (DOMAIN fs_) \ {p} |-> fs_[q]]

Put(fs_, p, n) == [q \in (DOMAIN fs_) \cup {p} |-> IF q = p THEN n ELSE fs_[q]]

\* os.unlink(p) and os.rmdir(p) of an object that exists
unlink(st, p) == Did([st EXCEPT !.fs = Remove1(@, p)], "unlink", p)

rmdir(st, p) == Did([st EXCEPT !.fs = Remove1(@, p)], "rmdir", p)

\* os.rename(old, new) where new does not exist: the subtree moves
Moved(old, new, q) == new \o SubSeq(q, Len(old) + 1, Len(q))

rename(st, old, new) ==
    LET under == {q \in DOMAIN st.fs : IsPrefix(old, q)}
        rest == (DOMAIN st.fs) \ under
        moved == {Moved(old, new, q) : q \in under}
        fs2 == [q \in rest \cup moved |->
                   IF q \in moved
                   THEN st.fs[old \o SubSeq(q, Len(new) + 1, Len(q))]
                   ELSE st.fs[q]]
    IN Did([st EXCEPT !.fs = fs2], "rename", old)

\* dst + "." + datetime.today().isoformat() at time t
backup_name(dst, t) == [dst EXCEPT ![Len(dst)] = Append(@, t)]

(***************************************************************************)
(* _rm_tree, lines 1132-1147.                                              *)
(***************************************************************************)
RECURSIVE _rm_tree(_, _)
RECURSIVE _rm_tree_loop(_, _, _)

\* line 1144 returned r: the loop goes on with the rest unless r raised
_rm_tree_next(r, dst, rest) ==
    IF r.exc # "none" THEN r ELSE _rm_tree_loop(r.st, dst, rest)

\* the loop of lines 1142-1144 over the rest of dst_list
_rm_tree_loop(st, dst, dst_list) ==
    IF dst_list = <<>> THEN Ok(st, FALSE)
    ELSE _rm_tree_next(_rm_tree(st, join(dst, Head(dst_list))), dst,
                       Tail(dst_list))

\* line 1145, r being what the loop returned
_rm_tree_rmdir(r, dst) ==
    IF r.exc # "none" THEN r ELSE Ok(rmdir(r.st, dst), FALSE)

_rm_tree(st, dst) ==
    IF dst \notin DOMAIN st.fs THEN Raise(st, "EnvironmentError")
    ELSE IF st.fs[dst].kind = "dir"
    THEN _rm_tree_rmdir(_rm_tree_loop(st, dst, sort(listdir(st.fs, dst))), dst)
    ELSE Ok(unlink(st, dst), FALSE)

(***************************************************************************)
(* _remove, lines 1149-1171.  Each reading of the clock is later than the  *)
(* one before it.                                                          *)
(***************************************************************************)
\* a removal that deletes dst whether or not a backup is asked for
_remove_without_backup(st, dst, backup) ==
    IF dst \notin DOMAIN st.fs THEN Raise(st, "EnvironmentError")
    ELSE IF st.fs[dst].kind = "dir" THEN _rm_tree(st, dst)
    ELSE Ok(unlink(st, dst), FALSE)

\* a removal of the object that dst leads to
_remove_followed(st, dst, backup) ==
    IF Resolve(st.fs, dst) \notin DOMAIN st.fs
    THEN Raise(st, "EnvironmentError")
    ELSE IF backup
    THEN Ok(rename([st EXCEPT !.now = @ + 1], Resolve(st.fs, dst),
                   backup_name(Resolve(st.fs, dst), st.now)), FALSE)
    ELSE IF st.fs[Resolve(st.fs, dst)].kind = "dir"
    THEN _rm_tree(st, Resolve(st.fs, dst))
    ELSE Ok(unlink(st, Resolve(st.fs, dst)), FALSE)

_remove(st, dst, backup) ==
    IF dst \notin DOMAIN st.fs THEN Raise(st, "EnvironmentError")
    ELSE IF backup
    THEN Ok(rename([st EXCEPT !.now = @ + 1], dst, backup_name(dst, st.now)),
            FALSE)
    ELSE IF st.fs[dst].kind = "dir" THEN _rm_tree(st, dst)
    ELSE Ok(unlink(st, dst), FALSE)

(***************************************************************************)
(* _copy_file_data, lines 1173-1196: open(src, 'r') and open(dst, 'w')     *)
(* follow symlinks; s and d are where they lead.  open(dst, 'w') makes dst  *)
(* or empties it, and the writes that follow fill it.                      *)
(***************************************************************************)
_copy_file_data_to(st, s, d) ==
    IF s \notin DOMAIN st.fs \/ st.fs[s].kind # "reg"
    THEN Raise(st, "EnvironmentError")
    ELSE IF d = <<>> \/ dirname(d) \notin DOMAIN st.fs
              \/ (d \in DOMAIN st.fs /\ st.fs[d].kind # "reg")
    THEN Raise(st, "EnvironmentError")
    ELSE IF d \in DOMAIN st.fs
    THEN Ok(Did([Did([st EXCEPT !.fs[d].data = <<>>], "truncate", d)
                    EXCEPT !.fs[d].data = st.fs[s].data], "write", d), FALSE)
    ELSE Ok(Did([Did([st EXCEPT !.fs = Put(@, d, NewNode("reg", <<>>))],
                     "create", d)
                    EXCEPT !.fs[d].data = st.fs[s].data], "write", d), FALSE)

_copy_file_data(st, src, dst) ==
    _copy_file_data_to(st, Resolve(st.fs, src), Resolve(st.fs, dst))

\* _md5sum, lines 1198-1215: the digest stands for the bytes it was made of
_md5sum(fs_, filename) == <<"md5", fs_[Resolve(fs_, filename)].data>>

st_size(fs_, p) == Len(fs_[p].data)

\* lines 896-897 and 950-951: dst is removed when it exists
Removed(st, dst, backup) ==
    IF dst \in DOMAIN st.fs THEN _remove(st, dst, backup) ELSE Ok(st, FALSE)

\* lines 904 and 957: need_copy is returned once c has made dst
Copied(c) == IF c.exc # "none" THEN c ELSE Ok(c.st, TRUE)

(***************************************************************************)
(* _copy_file, lines 875-904.  PyError is not defined in the module, so    *)
(* line 890 raises NameError.                                              *)
(***************************************************************************)
\* a comparison of the sizes alone
_copy_file_same_size(fs_, src, dst) == st_size(fs_, dst) = st_size(fs_, src)

\* lines 885-894, once the lstat of line 887 found a regular file
_copy_file_same(fs_, src, dst) ==
    /\ st_size(fs_, dst) = st_size(fs_, src)
    /\ _md5sum(fs_, dst) = _md5sum(fs_, src)

\* lines 891-892: the two files are read for their digests when they have
\* the same size
Digested(st, src, dst) ==
    IF st_size(st.fs, dst) = st_size(st.fs, src)
    THEN Did(Did(st, "md5sum", dst), "md5sum", src)
    ELSE st

\* lines 898-900, r being what the removal of dst returned
_copy_file_copy(r, src, dst) ==
    IF r.exc # "none" THEN r ELSE Copied(_copy_file_data(r.st, src, dst))

_copy_file(st, src, dst, backup) ==
    IF dst \in DOMAIN st.fs /\ st.fs[dst].kind = "reg"
           /\ src \notin DOMAIN st.fs
    THEN Raise(st, "EnvironmentError")
    ELSE IF dst \in DOMAIN st.fs /\ st.fs[dst].kind = "reg"
                /\ st.fs[src].kind # "reg"
    THEN Raise(st, "NameError")
    ELSE IF dst \in DOMAIN st.fs /\ st.fs[dst].kind = "reg"
                /\ _copy_file_same(st.fs, src, dst)
    THEN Ok(Digested(st, src, dst), FALSE)
    ELSE IF dst \in DOMAIN st.fs /\ st.fs[dst].kind = "reg"
    THEN _copy_file_copy(Removed(Digested(st, src, dst), dst, backup), src,
                         dst)
    ELSE _copy_file_copy(Removed(st, dst, backup), src, dst)

(***************************************************************************)
(* _copy_link, lines 929-957.                                              *)
(***************************************************************************)
symlink(st, srclink, dst) ==
    Ok(Did([st EXCEPT !.fs = Put(@, dst, NewNode("lnk", srclink))],
           "symlink", dst), FALSE)

\* lines 952-953, r being what the removal of dst returned
_copy_link_make(r, srclink, dst) ==
    IF r.exc # "none" THEN r ELSE Copied(symlink(r.st, srclink, dst))

_copy_link(st, src, dst, backup) ==
    IF src \notin DOMAIN st.fs THEN Raise(st, "EnvironmentError")
    ELSE IF st.fs[src].kind # "lnk" THEN Raise(st, "NameError")
    ELSE IF dst \in DOMAIN st.fs /\ st.fs[dst].kind = "lnk"
                /\ st.fs[dst].data = st.fs[src].data
    THEN Ok(st, FALSE)
    ELSE _copy_link_make(Removed(st, dst, backup), st.fs[src].data, dst)

(***************************************************************************)
(* _chkstat, lines 1273-1352.  a holds the arguments uid, gid, perm,       *)
(* se_context, se_user, se_role, se_type and se_level.  os.chown and       *)
(* os.chmod follow symlinks; lstat, lgetfilecon and lsetfilecon do not.    *)
(***************************************************************************)
HasComponent(a) ==
    a.se_user # NoneStr \/ a.se_role # NoneStr \/ a.se_type # NoneStr
        \/ a.se_level # NoneStr

\* lines 1332-1343: the context that is asked for, NoneStr when none is
compose(a, dst_se_context) ==
    IF HasComponent(a)
    THEN (IF a.se_user = NoneStr THEN <<dst_se_context[1]>> ELSE a.se_user)
         \o (IF a.se_role = NoneStr THEN <<dst_se_context[2]>> ELSE a.se_role)
         \o (IF a.se_type = NoneStr THEN <<dst_se_context[3]>> ELSE a.se_type)
         \o (IF a.se_level = NoneStr
             THEN SubSeq(dst_se_context, 4, Len(dst_se_context))
             ELSE a.se_level)
    ELSE a.se_context

\* os.chown(dst, uid, gid) and os.chmod(dst, perm): t is where dst leads
chown(st, dst, t, uid, gid) ==
    IF t = <<>> \/ t \notin DOMAIN st.fs THEN Raise(st, "EnvironmentError")
    ELSE Ok(Did([st EXCEPT !.fs[t].uid = uid, !.fs[t].gid = gid],
                "chown", dst), TRUE)

chmod(st, dst, t, perm) ==
    IF t = <<>> \/ t \notin DOMAIN st.fs THEN Raise(st, "EnvironmentError")
    ELSE Ok(Did([st EXCEPT !.fs[t].perm = perm], "chmod", dst), TRUE)

\* lines 1294-1318; old is what the lstat of line 1279 read
_chkstat_chown(st, dst, a, old) ==
    IF (a.uid # None /\ a.uid # old.uid) \/ (a.gid # None /\ a.gid # old.gid)
    THEN chown(st, dst, Resolve(st.fs, dst),
               IF a.uid # None THEN a.uid ELSE old.uid,
               IF a.gid # None THEN a.gid ELSE old.gid)
    ELSE Ok(st, FALSE)

\* lines 1319-1331: an OSError of chmod becomes a PysysconfError
Reraise(r, e) == IF r.exc = "none" THEN r ELSE Raise(r.st, e)

\* a reconciliation that leaves the permission bits as they are
_chkstat_chmod_skipped(st, dst, a, old) == Ok(st, FALSE)

_chkstat_chmod(st, dst, a, old) ==
    IF a.perm = None THEN Ok(st, FALSE)
    ELSE IF a.perm = BadPerm THEN Raise(st, "PysysconfError")
    ELSE IF old.perm = a.perm THEN Ok(st, FALSE)
    ELSE Reraise(chmod(st, dst, Resolve(st.fs, dst), a.perm),
                 "PysysconfError")

\* lines 1344-1351: lsetfilecon and did_action = True are outside the
\* comparison of line 1347
lsetfilecon(st, dst, se_context) ==
    Ok(Did([st EXCEPT !.fs[dst].label = se_context], "lsetfilecon", dst),
       TRUE)

_chkstat_context(st, dst, a, old) ==
    IF compose(a, old.label) = NoneStr THEN Ok(st, FALSE)
    ELSE lsetfilecon(st, dst, compose(a, old.label))

\* r returned, and did is what was done before it
Or(r, did) == IF r.exc # "none" THEN r ELSE Ok(r.st, r.val \/ did)

\* lines 1332-1352, m being what lines 1319-1331 returned
_chkstat_after_chmod(m, dst, a, old, did) ==
    IF m.exc # "none" THEN m
    ELSE Or(_chkstat_context(m.st, dst, a, old), did \/ m.val)

\* lines 1319-1352, o being what lines 1294-1318 returned
_chkstat_after_chown(o, dst, a, old) ==
    IF o.exc # "none" THEN o
    ELSE _chkstat_after_chmod(_chkstat_chmod(o.st, dst, a, old), dst, a, old,
                              o.val)

\* lines 1293-1352, old being the object the lstat of line 1279 found
_chkstat_apply(st, dst, a, old) ==
    _chkstat_after_chown(_chkstat_chown(st, dst, a, old), dst, a, old)

\* a reconciliation in which se_context gives way to the components
_chkstat_components_first(st, dst, a) ==
    IF dst \notin DOMAIN st.fs THEN Raise(st, "EnvironmentError")
    ELSE IF (a.se_context # NoneStr \/ HasComponent(a))
                /\ ~_HAVE_SELINUX_MODULE
    THEN Raise(st, "PysysconfError")
    ELSE _chkstat_apply(st, dst, a, st.fs[dst])

_chkstat(st, dst, a) ==
    IF a.se_context # NoneStr /\ HasComponent(a)
    THEN Raise(st, "PysysconfError")
    ELSE IF dst \notin DOMAIN st.fs THEN Raise(st, "EnvironmentError")
    ELSE IF (a.se_context # NoneStr \/ HasComponent(a))
                /\ ~_HAVE_SELINUX_MODULE
    THEN Raise(st, "PysysconfError")
    ELSE _chkstat_apply(st, dst, a, st.fs[dst])

(***************************************************************************)
(* _chkstatsrc, lines 1425-1446.                                           *)
(***************************************************************************)
\* attributes that are taken from the arguments alone
inherit_nothing(a, s) == a

\* lines 1430-1444, s being what the lstat of line 1425 read
inherit(a, s) ==
    [a EXCEPT !.uid = IF @ = None THEN s.uid ELSE @,
              !.gid = IF @ = None THEN s.gid ELSE @,
              !.perm = IF @ # None THEN @
                       ELSE IF s.kind = "dir"
                       THEN (IF a.dmask = None THEN s.perm
                             ELSE BitAnd(s.perm, a.dmask))
                       ELSE (IF a.umask = None THEN s.perm
                             ELSE BitAnd(s.perm, a.umask))]

\* a reconciliation of src itself
_chkstatsrc_of_src(st, src, dst, a) ==
    IF src \notin DOMAIN st.fs THEN Raise(st, "EnvironmentError")
    ELSE _chkstat(st, src, inherit(a, st.fs[src]))

_chkstatsrc(st, src, dst, a) ==
    IF src \notin DOMAIN st.fs THEN Raise(st, "EnvironmentError")
    ELSE _chkstat(st, dst, inherit(a, st.fs[src]))

(***************************************************************************)
(* _copy_dir, lines 1040-1130.  Line 1056 calls _remove with one argument, *)
(* which raises TypeError; line 1070 clears what line 1064 set; lines      *)
(* 1118-1119 pass the directories, not the child.                          *)
(***************************************************************************)
RECURSIVE _copy_dir(_, _, _, _)
RECURSIVE _copy_dir_loop(_, _, _, _, _, _, _, _, _)

\* lines 1097-1117: the copy function for the kind of the child
_copy_dir_dispatch(st, src_file, dst_file, a) ==
    IF src_file \notin DOMAIN st.fs THEN Raise(st, "EnvironmentError")
    ELSE CASE st.fs[src_file].kind = "reg" ->
                  _copy_file(st, src_file, dst_file, a.backup)
           [] st.fs[src_file].kind = "lnk" ->
                  _copy_link(st, src_file, dst_file, a.backup)
           [] st.fs[src_file].kind = "dir" ->
                  _copy_dir(st, src_file, dst_file, a)
           [] OTHER -> Raise(st, "PysysconfError")

\* lines 1094-1120: the child src_entry is copied, then the attributes of
\* dst are checked against src
_copy_dir_child_stat(c, src, dst, a) ==
    IF c.exc # "none" THEN c ELSE Or(_chkstatsrc(c.st, src, dst, a), c.val)

_copy_dir_child(st, src, dst, a, src_entry) ==
    _copy_dir_child_stat(
        _copy_dir_dispatch(st, join(src, src_entry), join(dst, src_entry), a),
        src, dst, a)

\* lines 1122-1126
_copy_dir_purge(st, dst_file) ==
    _remove(Did(st, "Deleting", dst_file), dst_file, FALSE)

\* a comparison that takes the entry of src only when it comes first
SrcTurn_when_less(src_dir, dst_dir, src_i, dst_i) ==
    /\ src_i <= Len(src_dir)
    /\ \/ dst_i > Len(dst_dir)
       \/ NameLess(src_dir[src_i], dst_dir[dst_i])

\* lines 1083-1093: the entry of src is the one to handle; it is also the
\* entry of dst
SrcTurn(src_dir, dst_dir, src_i, dst_i) ==
    /\ src_i <= Len(src_dir)
    /\ \/ dst_i > Len(dst_dir)
       \/ NameLess(src_dir[src_i], dst_dir[dst_i])
       \/ src_dir[src_i] = dst_dir[dst_i]

Both(src_dir, dst_dir, src_i, dst_i) ==
    src_i <= Len(src_dir) /\ dst_i <= Len(dst_dir)
        /\ src_dir[src_i] = dst_dir[dst_i]

\* the next turn of the loop, c being what this turn's copy or purge
\* returned
_copy_dir_next(c, src, dst, a, src_dir, dst_dir, src_i, dst_i, did_copy) ==
    IF c.exc # "none" THEN c
    ELSE _copy_dir_loop(c.st, src, dst, a, src_dir, dst_dir, src_i, dst_i,
                        did_copy \/ c.val)

\* the loop of lines 1071-1127, indices from 1
_copy_dir_loop(st, src, dst, a, src_dir, dst_dir, src_i, dst_i, did_copy) ==
    IF dst_i > Len(dst_dir) /\ src_i > Len(src_dir) THEN Ok(st, did_copy)
    ELSE IF SrcTurn(src_dir, dst_dir, src_i, dst_i)
    THEN _copy_dir_next(_copy_dir_child(st, src, dst, a, src_dir[src_i]),
                        src, dst, a, src_dir, dst_dir, src_i + 1,
                        IF Both(src_dir, dst_dir, src_i, dst_i)
                        THEN dst_i + 1 ELSE dst_i,
                        did_copy)
    ELSE IF a.purge
    THEN _copy_dir_next(_copy_dir_purge(st, join(dst, dst_dir[dst_i])),
                        src, dst, a, src_dir, dst_dir, src_i, dst_i + 1, TRUE)
    ELSE _copy_dir_loop(st, src, dst, a, src_dir, dst_dir, src_i, dst_i + 1,
                        did_copy)

mkdir(st, dst) ==
    IF dirname(dst) \notin DOMAIN st.fs THEN Raise(st, "EnvironmentError")
    ELSE Ok(Did([st EXCEPT !.fs = Put(@, dst, NewNode("dir", <<>>))],
                "mkdir", dst), FALSE)

\* lines 1046-1060
_copy_dir_make(st, dst) ==
    IF dst \notin DOMAIN st.fs THEN mkdir(st, dst)
    ELSE IF st.fs[dst].kind # "dir" THEN Raise(st, "TypeError")
    ELSE Ok(st, FALSE)

\* lines 1065-1130, t being what the _chkstatsrc of line 1061 returned
_copy_dir_walk(t, src, dst, a, src_dir) ==
    IF t.exc # "none" THEN t
    ELSE _copy_dir_loop(t.st, src, dst, a, src_dir,
                        sort(listdir(t.st.fs, dst)), 1, 1, FALSE)

\* lines 1061-1130, d being what lines 1046-1059 returned
_copy_dir_stat(d, src, dst, a, src_dir) ==
    IF d.exc # "none" THEN d
    ELSE _copy_dir_walk(_chkstatsrc(d.st, src, dst, a), src, dst, a, src_dir)

_copy_dir(st, src, dst, a) ==
    IF src \notin DOMAIN st.fs THEN Raise(st, "EnvironmentError")
    ELSE IF st.fs[src].kind # "dir" THEN Raise(st, "NameError")
    ELSE _copy_dir_stat(_copy_dir_make(st, dst), src, dst, a,
                        sort(listdir(st.fs, src)))

(***************************************************************************)
(* check_copy, lines 256-282.  A public function returns [st, ret, exc,    *)
(* err]: exc is the exception that escaped to the caller ("none" when the  *)
(* call returned), err the one it caught and logged.                       *)
(***************************************************************************)
\* the except clauses of a public function, change_made being the value of
\* the local when r raised
Caught(r, change_made) ==
    IF r.exc \in {"EnvironmentError", "PysysconfError"}
    THEN [st |-> r.st, ret |-> change_made, exc |-> "none", err |-> r.exc]
    ELSE [st |-> r.st, ret |-> FALSE, exc |-> r.exc, err |-> "none"]

Returned(st, v) == [st |-> st, ret |-> v, exc |-> "none", err |-> "none"]

\* a dispatch that copies whatever is no directory as a file
check_copy_dispatch_any_kind(st, src, dst, a) ==
    IF src \notin DOMAIN st.fs THEN Raise(st, "EnvironmentError")
    ELSE IF st.fs[src].kind = "dir" THEN _copy_dir(st, src, dst, a)
    ELSE _copy_file(st, src, dst, a.backup)

\* lines 258-271
check_copy_dispatch(st, src, dst, a) ==
    IF src \notin DOMAIN st.fs THEN Raise(st, "EnvironmentError")
    ELSE CASE st.fs[src].kind = "reg" -> _copy_file(st, src, dst, a.backup)
           [] st.fs[src].kind = "lnk" -> _copy_file(st, src, dst, a.backup)
           [] st.fs[src].kind = "dir" -> _copy_dir(st, src, dst, a)
           [] OTHER -> Raise(st, "PysysconfError")

\* lines 272-282, c being what the copy returned
check_copy_stat(c, t) ==
    IF t.exc # "none" THEN Caught(t, c.val)
    ELSE Returned(t.st, t.val \/ c.val)

check_copy_after(c, src, dst, a) ==
    IF c.exc # "none" THEN Caught(c, TRUE)
    ELSE check_copy_stat(c, _chkstatsrc(c.st, src, dst, a))

check_copy(st, src, dst, a) ==
    check_copy_after(check_copy_dispatch(st, src, dst, a), src, dst, a)

(***************************************************************************)
(* The runs of the copy engine: check_copy("src", "dst", ...) is called    *)
(* up to MaxCalls times with the same arguments on a filesystem that holds *)
(* one of the sources and one of the destinations below; another program   *)
(* may add a directory "z" to dst in between.                              *)
(***************************************************************************)
SRC == <<<<"src">>>>
DST == <<<<"dst">>>>
TGT == <<<<"tgt">>>>

\* the root directory and a regular file for the symlinks to point to
BaseFs == (<<>> :> NewNode("dir", <<>>)) @@ (TGT :> NewNode("reg", <<7, 7, 7>>))

OtherLabel == <<"system_u", "object_r", "etc_t", "s0", "c1">>

\* a tree rooted at root from the objects at the paths below it
At(root, rel) == [q \in {root \o r : r \in DOMAIN rel} |->
                     rel[SubSeq(q, Len(root) + 1, Len(q))]]

SrcFile == <<>> :> Node("reg", <<1, 2>>, 1, 1, \o640, DefaultLabel)

SrcLink == <<>> :> NewNode("lnk", TGT)

SrcDangling == <<>> :> NewNode("lnk", <<<<"c">>>>)

SrcEmpty == <<>> :> Node("dir", <<>>, 0, 0, \o700, DefaultLabel)

SrcTree ==
    (<<>> :> Node("dir", <<>>, 0, 1, \o750, DefaultLabel))
    @@ (<<<<"a">>>> :> Node("reg", <<1>>, 1, 1, \o600, DefaultLabel))
    @@ (<<<<"b">>>> :> Node("dir", <<>>, 0, 0, \o700, DefaultLabel))
    @@ (<<<<"b">>, <<"c">>>> :> NewNode("reg", <<2>>))
    @@ (<<<<"l">>>> :> NewNode("lnk", TGT))

Sources == {SrcFile, SrcLink, SrcDangling, SrcEmpty, SrcTree}

DstAbsent == <<>>

DstSame == <<>> :> NewNode("reg", <<1, 2>>)

DstOther == <<>> :> NewNode("reg", <<3, 4>>)

DstTarget == <<>> :> NewNode("reg", <<7, 7, 7>>)

DstLink == <<>> :> NewNode("lnk", TGT)

DstEmpty == <<>> :> NewNode("dir", <<>>)

DstTree ==
    (<<>> :> NewNode("dir", <<>>))
    @@ (<<<<"a">>>> :> NewNode("reg", <<9>>))
    @@ (<<<<"b">>>> :> NewNode("reg", <<2>>))
    @@ (<<<<"c">>>> :> NewNode("lnk", TGT))

DstCopy ==
    (<<>> :> Node("dir", <<>>, 0, 1, \o750, DefaultLabel))
    @@ (<<<<"a">>>> :> Node("reg", <<1>>, 1, 1, \o600, DefaultLabel))
    @@ (<<<<"b">>>> :> Node("dir", <<>>, 0, 0, \o700, OtherLabel))
    @@ (<<<<"b">>, <<"c">>>> :> NewNode("reg", <<2>>))
    @@ (<<<<"l">>>> :> NewNode("lnk", <<<<"c">>>>))

DstMirror == SrcTree

Destinations ==
    {DstAbsent, DstSame, DstOther, DstTarget, DstLink, DstEmpty, DstTree,
     DstCopy, DstMirror}

\* the keyword arguments of check_copy, with their defaults (lines 158-161)
Defaults ==
    [uid |-> None, gid |-> None, perm |-> None, umask |-> None,
     dmask |-> None, se_context |-> NoneStr, se_user |-> NoneStr,
     se_role |-> NoneStr, se_type |-> NoneStr, se_level |-> NoneStr,
     backup |-> TRUE, purge |-> FALSE]

AttrArgs ==
    {Defaults,
     [Defaults EXCEPT !.uid = 2],
     [Defaults EXCEPT !.gid = 2],
     [Defaults EXCEPT !.uid = 2, !.gid = 2],
     [Defaults EXCEPT !.perm = \o600],
     [Defaults EXCEPT !.umask = \o604],
     [Defaults EXCEPT !.dmask = \o711],
     [Defaults EXCEPT !.perm = \o664, !.umask = \o644],
     [Defaults EXCEPT !.perm = \o775, !.dmask = \o711],
     [Defaults EXCEPT !.se_context = DefaultLabel],
     [Defaults EXCEPT !.se_context = OtherLabel],
     [Defaults EXCEPT !.se_type = <<"etc_t">>],
     [Defaults EXCEPT !.se_context = OtherLabel, !.se_type = <<"etc_t">>]}

Arguments ==
    {[a EXCEPT !.backup = b, !.purge = g] :
        a \in AttrArgs, b \in BOOLEAN, g \in BOOLEAN}

WantsContext(a) == a.se_context # NoneStr \/ HasComponent(a)

\* the arguments a has _chkstat and _chkstatsrc take (lines 1273 and 1425)
Wanted(a, s) == inherit(a, s)

\* the label a asks for is the one d has, or none is asked for
LabelMet(a, d) == WantsContext(a) => compose(a, d.label) = d.label

\* dst object d has the owner, group, permission bits and label that the
\* options a ask for from src object s
AttrsMatch(a, s, d) ==
    /\ d.uid = Wanted(a, s).uid
    /\ d.gid = Wanted(a, s).gid
    /\ d.perm = Wanted(a, s).perm
    /\ LabelMet(a, d)

\* the paths below root, relative to it
Below(fs_, root) ==
    {SubSeq(q, Len(root) + 1, Len(q)) : q \in {r \in DOMAIN fs_ : IsPrefix(root, r)}}

\* every directory of dst has the child names of the same directory of src
SameNames(fs_) == Below(fs_, DST) = Below(fs_, SRC)

\* every leaf of dst has the kind and the content or target of the leaf of
\* src, and a regular file the attributes asked for
LeavesMatch(fs_, a) ==
    \A r \in Below(fs_, SRC) :
        fs_[SRC \o r].kind # "dir" =>
            /\ DST \o r \in DOMAIN fs_
            /\ fs_[DST \o r].kind = fs_[SRC \o r].kind
            /\ fs_[DST \o r].data = fs_[SRC \o r].data
            /\ fs_[SRC \o r].kind = "reg" =>
                   AttrsMatch(a, fs_[SRC \o r], fs_[DST \o r])

DirsMatch(fs_, a) ==
    \A r \in Below(fs_, SRC) :
        fs_[SRC \o r].kind = "dir" =>
            /\ DST \o r \in DOMAIN fs_
            /\ fs_[DST \o r].kind = "dir"
            /\ AttrsMatch(a, fs_[SRC \o r], fs_[DST \o r])

\* dst is what src and the options a describe
Matches(fs_, a) == SameNames(fs_) /\ LeavesMatch(fs_, a) /\ DirsMatch(fs_, a)

\* fn: the function called last; run: the calls of check_copy in a row since
\* the filesystem was last changed from outside; extra: z was added to a dst
\* that matched src
NoCall == [fn |-> "none", ret |-> FALSE, exc |-> "none", err |-> "none",
           ev |-> <<>>, run |-> 0, extra |-> FALSE]

CopyInit ==
    /\ \E s \in Sources, d \in Destinations :
          fs = BaseFs @@ At(SRC, s) @@ At(DST, d)
    /\ now = 1
    /\ args \in Arguments
    /\ _HAVE_SELINUX_MODULE \in (IF WantsContext(args) THEN BOOLEAN ELSE {TRUE})
    /\ ncalls = 0
    /\ call = NoCall
    /\ before = fs
    /\ lockfile = 0
    /\ inodes = <<>>
    /\ alive = {}
    /\ pc = <<>>
    /\ fd = <<>>
    /\ pid = <<>>
    /\ is_running = <<>>
    /\ ret = <<>>
    /\ entry = <<>>
    /\ trace = <<>>
    /\ quiet = <<>>
    /\ norelease = <<>>
    /\ last = <<>>
    /\ after = <<>>

\* the result r of a call of fn becomes the state
Called(fn, r, run, extra) ==
    /\ ncalls' = ncalls + 1
    /\ before' = fs
    /\ fs' = r.st.fs
    /\ now' = r.st.now
    /\ call' = [fn |-> fn, ret |-> r.ret, exc |-> r.exc, err |-> r.err,
                ev |-> r.st.ev, run |-> run, extra |-> extra]
    /\ UNCHANGED <<args, _HAVE_SELINUX_MODULE, lockvars>>

Start == [fs |-> fs, now |-> now, ev |-> <<>>]

\* check_copy("src", "dst", **args)
CheckCopy ==
    /\ ncalls < MaxCalls
    /\ Called("check_copy", check_copy(Start, SRC, DST, args), call.run + 1,
              call.extra)

\* what a caller of the private function r sees
Private(r) == [st |-> r.st, ret |-> r.val, exc |-> r.exc, err |-> "none"]

\* _chkstat("dst", ...) with the attributes of args
ChkStat ==
    /\ ncalls < MaxCalls
    /\ Called("_chkstat", Private(_chkstat(Start, DST, args)), 0, FALSE)

\* another program makes a directory z with a file in it in dst
EXTRA == join(DST, <<"z">>)

AddExtra ==
    /\ DST \in DOMAIN fs
    /\ fs[DST].kind = "dir"
    /\ EXTRA \notin DOMAIN fs
    /\ ncalls < MaxCalls
    /\ fs' = Put(Put(fs, EXTRA, NewNode("dir", <<>>)),
                 join(EXTRA, <<"c">>), NewNode("reg", <<5>>))
    /\ call' = [NoCall EXCEPT !.extra = Matches(fs, args)]
    /\ UNCHANGED <<now, args, _HAVE_SELINUX_MODULE, ncalls, before, lockvars>>

CopyNext == CheckCopy \/ ChkStat \/ AddExtra

CopySpec == CopyInit /\ [][CopyNext]_vars

(***************************************************************************)
(* The copy engine: claims.                                                *)
(***************************************************************************)
CopyReturned == call.fn = "check_copy" /\ call.exc = "none"

\* C5: the second of two check_copy calls in a row with the same arguments
\* returns False and leaves the filesystem as the first call left it.
C5_CheckCopyIdempotent ==
    call.fn = "check_copy" /\ call.run >= 2 =>
        /\ call.exc = "none"
        /\ call.ret = FALSE
        /\ fs = before

\* C6: when check_copy of a directory tree with purge=True has returned,
\* every directory of dst has the child names of the directory of src, and
\* every leaf of dst has the kind, the content or link target, and the
\* attributes of the leaf of src.
C6_PurgedCopyMirrors ==
    CopyReturned /\ args.purge /\ fs[SRC].kind = "dir" =>
        SameNames(fs) /\ LeavesMatch(fs, args)

\* the objects at and below p are in fs as they were in before
Untouched(p) ==
    \A q \in DOMAIN before : IsPrefix(p, q) => q \in DOMAIN fs /\ fs[q] = before[q]

Gone(p) == \A q \in DOMAIN fs : ~IsPrefix(p, q)

\* C7: check_copy onto a directory that matches src but for the extra name z
\* leaves z and all below it as they were and returns False when purge is
\* False, and removes z and returns True when purge is True.
C7_ExtraName ==
    call.fn = "check_copy" /\ call.run = 1 /\ call.extra =>
        /\ call.exc = "none"
        /\ IF args.purge THEN Gone(EXTRA) /\ call.ret = TRUE
           ELSE Untouched(EXTRA) /\ call.ret = FALSE

\* _chkstat returned, and old is what dst was when it was called
ChkStatReturned ==
    call.fn = "_chkstat" /\ call.exc = "none" /\ DST \in DOMAIN before

Met(x, cur) == x = None \/ x = cur

\* C8: when the permission bits of dst differ from the ones asked for and
\* owner and group are as asked, _chkstat changes the permission bits only
\* (owner, group, kind and content stay) and returns True; when every
\* attribute asked for is the current one, it changes nothing and returns
\* False.
C8_AttributeConvergence ==
    ChkStatReturned =>
        /\ (/\ args.perm # None
            /\ args.perm # before[DST].perm
            /\ Met(args.uid, before[DST].uid)
            /\ Met(args.gid, before[DST].gid))
           => /\ call.ret = TRUE
              /\ fs[DST].perm = args.perm
              /\ \A f \in {"uid", "gid", "kind", "data"} :
                     fs[DST][f] = before[DST][f]
        /\ (/\ Met(args.perm, before[DST].perm)
            /\ Met(args.uid, before[DST].uid)
            /\ Met(args.gid, before[DST].gid)
            /\ LabelMet(args, before[DST]))
           => call.ret = FALSE /\ fs = before

\* C9: check_copy of a directory returns True exactly when the call changed
\* an attribute of a directory of dst, copied or replaced a child, or purged
\* an extra, that is when it changed the filesystem.
C9_ChangedIffSomethingDone ==
    CopyReturned /\ before[SRC].kind = "dir" =>
        (call.ret = TRUE <=> fs # before)

\* C10: after check_copy with src a symlink, dst is a symlink with the
\* target of src, and not a regular file.
C10_SymlinkCopiedAsSymlink ==
    call.fn = "check_copy" /\ before[SRC].kind = "lnk" =>
        /\ DST \in DOMAIN fs
        /\ fs[DST].kind = "lnk"
        /\ fs[DST].data = before[SRC].data

\* the names at the top of the filesystem that are backups of dst
Backups(fs_) == {q \in DOMAIN fs_ : Len(q) = 1 /\ q # DST /\ q[1][1] = DST[1][1]}

\* C11: check_copy of a directory onto a dst that exists and is not a
\* directory removes dst without a backup, whatever backup says, makes a
\* directory in its place and fills it from src.
C11_NonDirReplacedByDir ==
    (/\ call.fn = "check_copy"
     /\ before[SRC].kind = "dir"
     /\ DST \in DOMAIN before
     /\ before[DST].kind # "dir")
    => /\ call.exc = "none"
       /\ DST \in DOMAIN fs
       /\ fs[DST].kind = "dir"
       /\ Backups(fs) = Backups(before)
       /\ \A r \in Below(fs, SRC) : DST \o r \in DOMAIN fs

\* owner, group and permission bits of dst object d are the ones the options
\* a ask for from src object s
OwnerAndModeMatch(a, s, d) ==
    /\ d.uid = Wanted(a, s).uid
    /\ d.gid = Wanted(a, s).gid
    /\ d.perm = Wanted(a, s).perm

\* C12: when check_copy of a directory has returned without an error, every
\* child of src that is not a symlink is in dst with the owner, group and
\* permission bits asked for from the child of src.
C12_ChildAttributesReconciled ==
    CopyReturned /\ call.err = "none" /\ before[SRC].kind = "dir" =>
        \A n \in listdir(fs, SRC) :
            /\ join(DST, n) \in DOMAIN fs
            /\ fs[join(SRC, n)].kind # "lnk" =>
                   OwnerAndModeMatch(args, fs[join(SRC, n)], fs[join(DST, n)])


(***************************************************************************)
(* check_link, check_file_exists and check_dir_exists, lines 350-384,      *)
(* 457-491 and 564-597: dst is made when it is not of the kind asked for,  *)
(* then _chkstat sets its attributes.  change_made is set before dst is    *)
(* removed (lines 367, 473, 580).                                          *)
(***************************************************************************)
\* the value a public function returns: t is what its last _chkstat
\* returned, change_made the local before it
Finish(t, change_made) ==
    IF t.exc # "none" THEN Caught(t, change_made)
    ELSE Returned(t.st, t.val \/ change_made)

\* lines 374-376 (and 481-483, 588-590), c being what making dst returned
Checked(c, dst, a, change_made) ==
    IF c.exc # "none" THEN Caught(c, change_made)
    ELSE Finish(_chkstat(c.st, dst, a), change_made)

\* check_link passes None for perm (line 374)
NoPerm(a) == [a EXCEPT !.perm = None]

check_link(st, src, dst, a) ==
    IF dst \in DOMAIN st.fs /\ st.fs[dst].kind = "lnk" /\ st.fs[dst].data = src
    THEN Checked(Ok(st, FALSE), dst, NoPerm(a), FALSE)
    ELSE Checked(_copy_link_make(Removed(st, dst, a.backup), src, dst), dst,
                 NoPerm(a), TRUE)

\* os.open(dst, os.O_CREAT): the mode is 0777 less the umask 022
creat(st, dst) ==
    Ok(Did([st EXCEPT !.fs = Put(@, dst, Node("reg", <<>>, 0, 0, \o755,
                                              DefaultLabel))],
           "open", dst), TRUE)

\* lines 475-478, r being what the removal of dst returned
check_file_exists_create(r, dst) ==
    IF r.exc # "none" THEN r ELSE creat(r.st, dst)

check_file_exists(st, dst, a) ==
    IF dst \in DOMAIN st.fs /\ st.fs[dst].kind = "reg"
    THEN Checked(Ok(st, FALSE), dst, a, FALSE)
    ELSE Checked(check_file_exists_create(Removed(st, dst, a.backup), dst),
                 dst, a, TRUE)

\* os.mkdir(dst, 0700)
mkdir_0700(st, dst) ==
    Ok(Did([st EXCEPT !.fs = Put(@, dst, Node("dir", <<>>, 0, 0, \o700,
                                              DefaultLabel))],
           "mkdir", dst), TRUE)

\* lines 582-585, r being what the removal of dst returned
check_dir_exists_create(r, dst) ==
    IF r.exc # "none" THEN r ELSE mkdir_0700(r.st, dst)

check_dir_exists(st, dst, a) ==
    IF dst \in DOMAIN st.fs /\ st.fs[dst].kind = "dir"
    THEN Checked(Ok(st, FALSE), dst, a, FALSE)
    ELSE Checked(check_dir_exists_create(Removed(st, dst, a.backup), dst),
                 dst, a, TRUE)

(***************************************************************************)
(* check_not_exists and _remove_by_test, lines 637-665 and 1471-1493, with *)
(* the tests of lines 1495-1540.  An object made during the run has no     *)
(* mtime field: its time is the time it is looked at.  A removal leaves    *)
(* the times of the directory it removes from as they were.                *)
(***************************************************************************)
\* the age test_age is made with, and the time of an old object
AgeLimit == 50

Epoch == 0

st_mtime(node, t) == IF "mtime" \in DOMAIN node THEN node.mtime ELSE t

\* a test that takes no account of the age of the object
test_without_age(a, st, f_stat) == a.test = "test_true"

\* test.test(f_name, f_stat) for the test objects of the module; test_age is
\* test_age(age = AgeLimit), with age_type "mtime"
test(a, st, f_stat) ==
    CASE a.test = "test_true" -> TRUE
      [] a.test = "test_false" -> FALSE
      [] a.test = "test_age" -> AgeLimit < st.now - st_mtime(f_stat, st.now)
      [] OTHER -> FALSE

\* os.listdir(dst) gives the names in no stated order: ascending, or
\* descending when a.reverse
RECURSIVE Reverse(_)
Reverse(sq) == IF sq = <<>> THEN <<>> ELSE Append(Reverse(Tail(sq)), Head(sq))

Listing(fs_, dst, a) ==
    IF a.reverse THEN Reverse(sort(listdir(fs_, dst)))
    ELSE sort(listdir(fs_, dst))

\* lines 1480-1483: the object os.stat or os.lstat reads, <<>> when there is
\* none
Stat(fs_, f_name, a) ==
    IF a.follow_links
    THEN (IF Resolve(fs_, f_name) \in DOMAIN fs_ THEN Resolve(fs_, f_name)
          ELSE <<>>)
    ELSE f_name

RECURSIVE _remove_by_test(_, _, _)
RECURSIVE _remove_by_test_loop(_, _, _, _, _)

\* the loop goes on with the rest, r being what the removal (line 1486) or
\* the recursion (lines 1490-1492) returned
_remove_by_test_next(r, dst, a, rest, change_made) ==
    IF r.exc # "none" THEN r
    ELSE _remove_by_test_loop(r.st, dst, a, rest, r.val \/ change_made)

\* a walk that removes every object it comes to, whatever the test says
_remove_by_test_entry_untested(st, dst, a, f_name, f_stat, rest, change_made) ==
    _remove_by_test_next(_remove(st, f_name, a.backup), dst, a, rest,
                         change_made)

\* lines 1485-1492, f_stat being what line 1481 or 1483 read
_remove_by_test_entry(st, dst, a, f_name, f_stat, rest, change_made) ==
    IF test(a, st, f_stat)
    THEN _remove_by_test_next(_remove(st, f_name, a.backup), dst, a, rest,
                              change_made)
    ELSE IF f_stat.kind = "dir"
    THEN _remove_by_test_next(_remove_by_test(st, f_name, a), dst, a, rest,
                              change_made)
    ELSE _remove_by_test_loop(st, dst, a, rest, change_made)

\* the loop of lines 1478-1492 over the rest of dst_list
_remove_by_test_loop(st, dst, a, dst_list, change_made) ==
    IF dst_list = <<>> THEN Ok(st, change_made)
    ELSE IF Stat(st.fs, join(dst, Head(dst_list)), a) = <<>>
    THEN Raise(st, "EnvironmentError")
    ELSE _remove_by_test_entry(st, dst, a, join(dst, Head(dst_list)),
             st.fs[Stat(st.fs, join(dst, Head(dst_list)), a)],
             Tail(dst_list), change_made)

\* PysysconfException is not defined in the module, so line 1474 raises
\* NameError
_remove_by_test(st, dst, a) ==
    IF dst \notin DOMAIN st.fs THEN Raise(st, "EnvironmentError")
    ELSE IF st.fs[dst].kind # "dir" THEN Raise(st, "NameError")
    ELSE _remove_by_test_loop(st, dst, a, Listing(st.fs, dst, a), FALSE)

\* a removal that reports no change
check_not_exists_removed_quietly(r) ==
    IF r.exc # "none" THEN Caught(r, FALSE) ELSE Returned(r.st, FALSE)

\* lines 648-650, r being what _remove returned
check_not_exists_removed(r) ==
    IF r.exc # "none" THEN Caught(r, TRUE) ELSE Returned(r.st, TRUE)

\* lines 655-657, r being what _remove_by_test returned
check_not_exists_tested(r) ==
    IF r.exc # "none" THEN Caught(r, FALSE) ELSE Returned(r.st, r.val)

check_not_exists(st, dst, a) ==
    IF a.test = "None"
    THEN (IF dst \in DOMAIN st.fs
          THEN check_not_exists_removed(_remove(st, dst, a.backup))
          ELSE Returned(st, FALSE))
    ELSE check_not_exists_tested(_remove_by_test(st, dst, a))


(***************************************************************************)
(* The runs of check_not_exists: check_not_exists("dst", test,             *)
(* follow_links, backup) is called up to MaxCalls times in a row on a      *)
(* filesystem in which dst is absent, a file, a symlink, or a directory    *)
(* tree some objects of which are old.                                     *)
(***************************************************************************)
\* the time of the run
Today == 100

\* the tree below dst: its symlink l points to a file, to nothing, or to the
\* directory b
AgedTree(target) ==
    (<<>> :> NewNode("dir", <<>>))
    @@ (<<<<"a">>>> :> NewNode("reg", <<1>>))
    @@ (<<<<"b">>>> :> NewNode("dir", <<>>))
    @@ (<<<<"b">>, <<"c">>>> :> NewNode("reg", <<2>>))
    @@ (<<<<"b">>, <<"z">>>> :> NewNode("dir", <<>>))
    @@ (<<<<"l">>>> :> NewNode("lnk", target))

LinkTargets == {TGT, <<<<"c">>>>, join(DST, <<"b">>)}

\* the objects that can be old
Ageable ==
    {TGT} \cup {DST \o r : r \in DOMAIN AgedTree(TGT) \ {<<>>}}

\* the objects of S were last modified at Epoch
Old(fs_, S) ==
    [q \in DOMAIN fs_ |->
        IF q \in S THEN fs_[q] @@ [mtime |-> Epoch] ELSE fs_[q]]

RemoveArguments ==
    [test : {"None", "test_true", "test_false", "test_age"},
     follow_links : BOOLEAN, backup : BOOLEAN, reverse : BOOLEAN]

RemoveInit ==
    /\ \/ \E d \in {DstAbsent, DstSame, DstLink, DstEmpty} :
             fs = BaseFs @@ At(DST, d)
       \/ \E t \in LinkTargets, S \in SUBSET Ageable :
             fs = Old(BaseFs @@ At(DST, AgedTree(t)), S)
    /\ now = Today
    /\ args \in RemoveArguments
    /\ _HAVE_SELINUX_MODULE = TRUE
    /\ ncalls = 0
    /\ call = NoCall
    /\ before = fs
    /\ lockfile = 0
    /\ inodes = <<>>
    /\ alive = {}
    /\ pc = <<>>
    /\ fd = <<>>
    /\ pid = <<>>
    /\ is_running = <<>>
    /\ ret = <<>>
    /\ entry = <<>>
    /\ trace = <<>>
    /\ quiet = <<>>
    /\ norelease = <<>>
    /\ last = <<>>
    /\ after = <<>>

\* how the call before this one ended
Prev == [fn |-> call.fn, ret |-> call.ret, exc |-> call.exc, err |-> call.err]

\* the result r of a call of fn with arguments a becomes the state; run
\* counts the calls of fn with these arguments in a row
Invoked(fn, r, a) ==
    /\ ncalls' = ncalls + 1
    /\ before' = fs
    /\ fs' = r.st.fs
    /\ now' = r.st.now
    /\ args' = a
    /\ call' = [fn |-> fn, ret |-> r.ret, exc |-> r.exc, err |-> r.err,
                ev |-> r.st.ev,
                run |-> IF call.fn = fn /\ args = a THEN call.run + 1 ELSE 1,
                extra |-> FALSE, prev |-> Prev]
    /\ UNCHANGED <<_HAVE_SELINUX_MODULE, lockvars>>

\* check_not_exists("dst", **args)
CheckNotExists ==
    /\ ncalls < MaxCalls
    /\ Invoked("check_not_exists", check_not_exists(Start, DST, args), args)

RemoveNext == CheckNotExists

RemoveSpec == RemoveInit /\ [][RemoveNext]_vars


(***************************************************************************)
(* The runs of the public operations on one object: check_link("src",      *)
(* "dst"), check_file_exists("dst"), check_dir_exists("dst") and           *)
(* check_copy("src", "dst") are called up to MaxCalls times, in any order, *)
(* with the owner, label and backup option of args and, for the two        *)
(* check_*_exists, a perm chosen at each call.  src is absent, a file or a *)
(* symlink to nothing; dst is absent, a file, a symlink or a directory.    *)
(***************************************************************************)
\* dst is a symlink to src, owned by root or by the owner asked for
DstToSrc == <<>> :> NewNode("lnk", SRC)

DstOwned == <<>> :> Node("lnk", SRC, 2, 0, \o777, DefaultLabel)

\* src is a named pipe, or a directory that holds one between two files
SrcFifo == <<>> :> NewNode("fifo", <<>>)

SrcPipes ==
    (<<>> :> NewNode("dir", <<>>))
    @@ (<<<<"a">>>> :> NewNode("reg", <<1>>))
    @@ (<<<<"c">>>> :> NewNode("fifo", <<>>))
    @@ (<<<<"z">>>> :> NewNode("reg", <<3>>))

EnsureSources == {DstAbsent, SrcFile, SrcDangling, SrcFifo, SrcPipes}

EnsureDestinations ==
    {DstAbsent, DstSame, DstLink, DstToSrc, DstOwned, DstEmpty, DstTree}

\* the perm values of the calls: none, two of test_check_file_exists, and
\* one that is no permission at all
Perms == {None, \o640, \o766, BadPerm}

EnsureArguments ==
    {[Defaults EXCEPT !.uid = u, !.se_context = l, !.backup = b] :
        u \in {None, 2}, l \in {NoneStr, OtherLabel}, b \in BOOLEAN}

EnsureInit ==
    /\ \E s \in EnsureSources, d \in EnsureDestinations :
          fs = BaseFs @@ At(SRC, s) @@ At(DST, d)
    /\ now = 1
    /\ args \in EnsureArguments
    /\ _HAVE_SELINUX_MODULE \in (IF WantsContext(args) THEN BOOLEAN ELSE {TRUE})
    /\ ncalls = 0
    /\ call = NoCall
    /\ before = fs
    /\ lockfile = 0
    /\ inodes = <<>>
    /\ alive = {}
    /\ pc = <<>>
    /\ fd = <<>>
    /\ pid = <<>>
    /\ is_running = <<>>
    /\ ret = <<>>
    /\ entry = <<>>
    /\ trace = <<>>
    /\ quiet = <<>>
    /\ norelease = <<>>
    /\ last = <<>>
    /\ after = <<>>

\* args with the perm of this call
WithPerm(p) == [args EXCEPT !.perm = p]

\* check_link("src", "dst", uid, se_context, backup)
CheckLink ==
    /\ ncalls < MaxCalls
    /\ Invoked("check_link", check_link(Start, SRC, DST, NoPerm(args)),
               NoPerm(args))

\* check_file_exists("dst", uid, perm, se_context, backup)
CheckFileExists ==
    /\ ncalls < MaxCalls
    /\ \E p \in Perms :
          Invoked("check_file_exists",
                  check_file_exists(Start, DST, WithPerm(p)), WithPerm(p))

\* check_dir_exists("dst", uid, perm, se_context, backup)
CheckDirExists ==
    /\ ncalls < MaxCalls
    /\ \E p \in Perms :
          Invoked("check_dir_exists",
                  check_dir_exists(Start, DST, WithPerm(p)), WithPerm(p))

\* check_copy("src", "dst", **args)
CheckCopyOnce ==
    /\ ncalls < MaxCalls
    /\ Invoked("check_copy", check_copy(Start, SRC, DST, args), args)

EnsureNext == CheckLink \/ CheckFileExists \/ CheckDirExists \/ CheckCopyOnce

EnsureSpec == EnsureInit /\ [][EnsureNext]_vars

(***************************************************************************)
(* The runs of _chkstat: _chkstat("dst", uid, gid, perm, se_context,       *)
(* se_user, se_role, se_type, se_level) is called up to MaxCalls times     *)
(* with the same arguments on a dst that is absent, a file, a symlink to a *)
(* file or to nothing, or a directory.                                     *)
(***************************************************************************)
DstOwnedFile == <<>> :> Node("reg", <<1, 2>>, 2, 2, \o600, OtherLabel)

StatDestinations ==
    {DstAbsent, DstSame, DstOwnedFile, DstLink, SrcDangling, DstEmpty}

\* no component of the label, or one of the four
Components ==
    {[Defaults EXCEPT !.se_user = u, !.se_role = r, !.se_type = t,
                      !.se_level = v] :
        <<u, r, t, v>> \in
            {<<NoneStr, NoneStr, NoneStr, NoneStr>>,
             <<<<"user_u">>, NoneStr, NoneStr, NoneStr>>,
             <<NoneStr, <<"object_r">>, NoneStr, NoneStr>>,
             <<NoneStr, NoneStr, <<"etc_t">>, NoneStr>>,
             <<NoneStr, NoneStr, NoneStr, <<"s0", "c1">>>>}}

StatArguments ==
    {[c EXCEPT !.uid = u, !.gid = g, !.perm = p, !.se_context = l] :
        c \in Components, u \in {None, 0, 2}, g \in {None, 0, 2},
        p \in {None, \o644, \o600},
        l \in {NoneStr, DefaultLabel, OtherLabel}}

StatInit ==
    /\ \E d \in StatDestinations : fs = BaseFs @@ At(DST, d)
    /\ now = 1
    /\ args \in StatArguments
    /\ _HAVE_SELINUX_MODULE \in (IF WantsContext(args) THEN BOOLEAN ELSE {TRUE})
    /\ ncalls = 0
    /\ call = NoCall
    /\ before = fs
    /\ lockfile = 0
    /\ inodes = <<>>
    /\ alive = {}
    /\ pc = <<>>
    /\ fd = <<>>
    /\ pid = <<>>
    /\ is_running = <<>>
    /\ ret = <<>>
    /\ entry = <<>>
    /\ trace = <<>>
    /\ quiet = <<>>
    /\ norelease = <<>>
    /\ last = <<>>
    /\ after = <<>>

\* _chkstat("dst", ...) with the attributes of args
ChkStatOnce ==
    /\ ncalls < MaxCalls
    /\ Invoked("_chkstat", Private(_chkstat(Start, DST, args)), args)

StatNext == ChkStatOnce

StatSpec == StatInit /\ [][StatNext]_vars

(***************************************************************************)
(* The runs of check_copy of a directory that are stopped: the process is  *)
(* killed after some of the calls a run makes on the filesystem, and       *)
(* check_copy("src", "dst") is then called again with the same arguments.  *)
(***************************************************************************)
CrashArguments ==
    {[Defaults EXCEPT !.backup = b, !.purge = g] : b \in BOOLEAN, g \in BOOLEAN}

CrashInit ==
    /\ \E s \in {SrcTree, SrcEmpty}, d \in Destinations :
          fs = BaseFs @@ At(SRC, s) @@ At(DST, d)
    /\ now = 1
    /\ args \in CrashArguments
    /\ _HAVE_SELINUX_MODULE = TRUE
    /\ ncalls = 0
    /\ call = NoCall
    /\ before = fs
    /\ lockfile = 0
    /\ inodes = <<>>
    /\ alive = {}
    /\ pc = <<>>
    /\ fd = <<>>
    /\ pid = <<>>
    /\ is_running = <<>>
    /\ ret = <<>>
    /\ entry = <<>>
    /\ trace = <<>>
    /\ quiet = <<>>
    /\ norelease = <<>>
    /\ last = <<>>
    /\ after = <<>>

\* a run that is stopped after k calls on the filesystem
Halting(k) == [fs |-> fs, now |-> now, ev |-> <<>>, halt |-> k, snap |-> fs]

\* the calls on the filesystem that the whole run makes
Steps == Len(check_copy(Start, SRC, DST, args).st.ev)

\* the process running r was killed: the filesystem is as its last call
\* left it, and nothing is returned
Killed(r) ==
    /\ ncalls' = ncalls + 1
    /\ before' = fs
    /\ fs' = r.st.snap
    /\ now' = r.st.now
    /\ call' = [NoCall EXCEPT !.fn = "killed"]
    /\ UNCHANGED <<args, _HAVE_SELINUX_MODULE, lockvars>>

\* check_copy("src", "dst", **args), killed after k of its calls
CheckCopyKilled ==
    /\ ncalls < MaxCalls
    /\ \E k \in 1..Steps : Killed(check_copy(Halting(k), SRC, DST, args))

CrashNext == CheckCopyKilled \/ CheckCopyOnce

CrashSpec == CrashInit /\ [][CrashNext]_vars

(***************************************************************************)
(* The runs of the copy functions for one object: _copy_file("src",        *)
(* "dst", backup), _copy_link("src", "dst", backup) and _copy_dir("src",   *)
(* "dst", ...) are called, as check_copy and _copy_dir call them after     *)
(* their stat of src found a regular file, a symlink or a directory, on a  *)
(* src that is by then a file, a symlink or a directory, and a dst that is *)
(* absent or any of these.                                                 *)
(***************************************************************************)
\* a file of another size than src
DstLonger == <<>> :> NewNode("reg", <<1, 2, 3>>)

LeafSources == {SrcFile, SrcLink, SrcDangling, SrcEmpty}

LeafDestinations ==
    {DstAbsent, DstSame, DstOther, DstLonger, DstLink, SrcDangling, DstEmpty,
     DstTree}

LeafInit ==
    /\ \E s \in LeafSources, d \in LeafDestinations :
          fs = BaseFs @@ At(SRC, s) @@ At(DST, d)
    /\ now = 1
    /\ args \in {[Defaults EXCEPT !.backup = b] : b \in BOOLEAN}
    /\ _HAVE_SELINUX_MODULE = TRUE
    /\ ncalls = 0
    /\ call = NoCall
    /\ before = fs
    /\ lockfile = 0
    /\ inodes = <<>>
    /\ alive = {}
    /\ pc = <<>>
    /\ fd = <<>>
    /\ pid = <<>>
    /\ is_running = <<>>
    /\ ret = <<>>
    /\ entry = <<>>
    /\ trace = <<>>
    /\ quiet = <<>>
    /\ norelease = <<>>
    /\ last = <<>>
    /\ after = <<>>

\* _copy_file("src", "dst", backup)
CopyFile ==
    /\ ncalls < MaxCalls
    /\ Invoked("_copy_file", Private(_copy_file(Start, SRC, DST, args.backup)),
               args)

\* _copy_link("src", "dst", backup)
CopyLink ==
    /\ ncalls < MaxCalls
    /\ Invoked("_copy_link", Private(_copy_link(Start, SRC, DST, args.backup)),
               args)

\* _copy_dir("src", "dst", **args)
CopyDir ==
    /\ ncalls < MaxCalls
    /\ Invoked("_copy_dir", Private(_copy_dir(Start, SRC, DST, args)), args)

LeafNext == CopyFile \/ CopyLink \/ CopyDir

LeafSpec == LeafInit /\ [][LeafNext]_vars

(***************************************************************************)
(* The walk of _copy_dir over the two listings, lines 1065-1127, one turn  *)
(* of the loop at a time: call holds the sorted listings src_dir and       *)
(* dst_dir, the indices src_i and dst_i (from 1) and, in handled, what     *)
(* each turn decided: <<"sync", name>> for lines 1094-1120,                *)
(* <<"purge", name>> for lines 1122-1127 with purge and <<"skip", name>>   *)
(* for them without.                                                       *)
(***************************************************************************)
MergeNames == {<<"a">>, <<"a", 1>>, <<"b">>, <<"l">>, <<"z">>}

MergeInit ==
    /\ \E S \in SUBSET MergeNames, D \in SUBSET MergeNames :
          call = [fn |-> "_copy_dir", src_dir |-> sort(S), dst_dir |-> sort(D),
                  src_i |-> 1, dst_i |-> 1, handled |-> <<>>]
    /\ args \in [purge : BOOLEAN]
    /\ fs = BaseFs
    /\ now = 1
    /\ _HAVE_SELINUX_MODULE = TRUE
    /\ ncalls = 0
    /\ before = fs
    /\ lockfile = 0
    /\ inodes = <<>>
    /\ alive = {}
    /\ pc = <<>>
    /\ fd = <<>>
    /\ pid = <<>>
    /\ is_running = <<>>
    /\ ret = <<>>
    /\ entry = <<>>
    /\ trace = <<>>
    /\ quiet = <<>>
    /\ norelease = <<>>
    /\ last = <<>>
    /\ after = <<>>

\* line 1080: both listings are at their end
WalkEnded ==
    call.dst_i > Len(call.dst_dir) /\ call.src_i > Len(call.src_dir)

\* lines 1082-1120: the entry of src is synchronized
WalkSync ==
    /\ ~WalkEnded
    /\ SrcTurn(call.src_dir, call.dst_dir, call.src_i, call.dst_i) = TRUE
    /\ call' = [call EXCEPT
                   !.handled = Append(@, <<"sync", call.src_dir[call.src_i]>>),
                   !.src_i = @ + 1,
                   !.dst_i = IF Both(call.src_dir, call.dst_dir, call.src_i,
                                     call.dst_i)
                             THEN @ + 1 ELSE @]
    /\ UNCHANGED <<fs, now, _HAVE_SELINUX_MODULE, args, ncalls, before,
                   lockvars>>

\* lines 1121-1127: the entry of dst is removed when purge is set, and passed
WalkPurge ==
    /\ ~WalkEnded
    /\ ~SrcTurn(call.src_dir, call.dst_dir, call.src_i, call.dst_i)
    /\ call' = [call EXCEPT
                   !.handled = Append(@, <<IF args.purge THEN "purge"
                                           ELSE "skip",
                                           call.dst_dir[call.dst_i]>>),
                   !.dst_i = @ + 1]
    /\ UNCHANGED <<fs, now, _HAVE_SELINUX_MODULE, args, ncalls, before,
                   lockvars>>

MergeNext == WalkSync \/ WalkPurge

\* the loop runs on until line 1081 leaves it
MergeSpec == MergeInit /\ [][MergeNext]_vars /\ WF_vars(MergeNext)

(***************************************************************************)
(* check_not_exists: claims.                                               *)
(***************************************************************************)
\* the objects below root
Under(fs_, root) == {q \in DOMAIN fs_ : IsPrefix(root, q) /\ q # root}

\* the walk of check_not_exists went to its end
WalkDone ==
    call.fn = "check_not_exists" /\ call.exc = "none" /\ call.err = "none"

\* the call was check_not_exists("dst", test = test_age(age = AgeLimit))
AgeCall ==
    WalkDone /\ args.test = "test_age" /\ ~args.follow_links /\ ~args.backup

Age(node) == now - st_mtime(node, now)

\* the test of the call is true of the object that was at q
Matched(q) == test(args, [now |-> now], before[q])

\* q was inside a directory below dst of which the test is true
InsideMatched(q) ==
    \E d \in Under(before, DST) : d # q /\ IsPrefix(d, q) /\ Matched(d)

\* C13 as stated: after check_not_exists(dir, test_age(T)) every object
\* below dir, at any depth, that is older than T is gone and every one that
\* is younger than T is still there.
C13_AgeTestAtAnyDepth ==
    AgeCall =>
        \A q \in Under(before, DST) :
            /\ Age(before[q]) > AgeLimit => q \notin DOMAIN fs
            /\ Age(before[q]) < AgeLimit => q \in DOMAIN fs

\* C13, amended: after check_not_exists(dir, test_age(T)) every object below
\* dir that is older than T is gone, and every one that is younger than T and
\* not inside a directory older than T is still there.
C13_AgeTestOutsideOldDirectories ==
    AgeCall =>
        \A q \in Under(before, DST) :
            /\ Age(before[q]) > AgeLimit => q \notin DOMAIN fs
            /\ Age(before[q]) < AgeLimit /\ ~InsideMatched(q)
                   => q \in DOMAIN fs /\ fs[q] = before[q]

\* an old file in a young directory went, the young directory stayed, and an
\* old directory went with what it held
C13_Witness ==
    /\ AgeCall
    /\ \E q \in Under(before, DST) :
          /\ Age(before[q]) > AgeLimit
          /\ q \notin DOMAIN fs
          /\ dirname(q) # DST
          /\ dirname(q) \in DOMAIN fs
    /\ \E q \in Under(before, DST) :
          /\ Age(before[q]) < AgeLimit
          /\ ~InsideMatched(q)
          /\ before[q].kind = "reg"
          /\ q \in DOMAIN fs

\* the call was check_not_exists("dst", test = ...) on a directory
TestCall ==
    /\ call.fn = "check_not_exists"
    /\ args.test # "None"
    /\ DST \in DOMAIN before
    /\ before[DST].kind = "dir"

StillDir(q) == q \in DOMAIN fs /\ fs[q].kind = "dir"

\* C14 as stated: check_not_exists(dir, test_true()) removes every child of
\* dir and not dir; whatever the test, a directory of which the test is
\* false is not removed.
C14_DirectoriesKept ==
    TestCall =>
        /\ StillDir(DST)
        /\ (args.test = "test_true" /\ ~args.follow_links /\ ~args.backup)
               => Under(fs, DST) = {}
        /\ \A q \in Under(before, DST) :
               before[q].kind = "dir" /\ ~Matched(q) => StillDir(q)

\* C14, amended: check_not_exists(dir, test_true()) removes every child of
\* dir and not dir; whatever the test, a directory of which the test is
\* false, and which is not inside a directory of which the test is true, is
\* not removed.
C14_ReachedDirectoriesKept ==
    TestCall =>
        /\ StillDir(DST)
        /\ (args.test = "test_true" /\ ~args.follow_links /\ ~args.backup)
               => Under(fs, DST) = {}
        /\ \A q \in Under(before, DST) :
               before[q].kind = "dir" /\ ~Matched(q) /\ ~InsideMatched(q)
                   => StillDir(q)

\* a directory of which the test is false was emptied by the walk and kept
C14_Witness ==
    /\ TestCall
    /\ WalkDone
    /\ \E q \in Under(before, DST) :
          /\ before[q].kind = "dir"
          /\ ~Matched(q)
          /\ Under(before, q) # {}
          /\ StillDir(q)
          /\ Under(fs, q) = {}

\* C15: a check_not_exists run that follows a completed run with the same
\* arguments leaves the filesystem as it was.
C15_RemoveIdempotent ==
    (/\ call.fn = "check_not_exists"
     /\ call.run >= 2
     /\ call.prev.exc = "none"
     /\ call.prev.err = "none")
    => fs = before

\* C16: check_not_exists with a test returns True exactly when the walk
\* removed or renamed an object.
C16_ReturnsTrueIffRemoved ==
    WalkDone /\ args.test # "None" => (call.ret = TRUE <=> fs # before)

\* C18: check_not_exists(dst) without a test returns True and leaves nothing
\* at dst when dst exists, and returns False and changes nothing when it
\* does not.
C18_RemoveWithoutTest ==
    call.fn = "check_not_exists" /\ args.test = "None" =>
        /\ call.exc = "none"
        /\ IF DST \in DOMAIN before
           THEN call.ret = TRUE /\ Gone(DST)
           ELSE call.ret = FALSE /\ fs = before

\* a directory with objects in it was removed
C18_Witness ==
    /\ call.fn = "check_not_exists"
    /\ args.test = "None"
    /\ DST \in DOMAIN before
    /\ Under(before, DST) # {}
    /\ Gone(DST)
    /\ call.ret = TRUE


(***************************************************************************)
(* check_file_exists, check_dir_exists, check_link and the caught errors:  *)
(* claims.                                                                 *)
(***************************************************************************)
\* a label is only asked for where the selinux module is there to set it
Feasible == WantsContext(args) => _HAVE_SELINUX_MODULE

\* dst is an object of this kind with these permission bits
IsWith(fs_, kind, perm) ==
    DST \in DOMAIN fs_ /\ fs_[DST].kind = kind /\ fs_[DST].perm = perm

\* the call was fn("dst", perm = p, ...), p being permission bits
PermCall(fn) ==
    call.fn = fn /\ args.perm \notin {None, BadPerm} /\ Feasible

\* C17: whatever dst was, after check_file_exists(dst, perm = p) it is a
\* regular file with permission bits p and after check_dir_exists(dst,
\* perm = p) a directory with permission bits p; a call that follows such a
\* call of the same function changes nothing but the permission bits.
C17_ExistsWithPerm ==
    /\ PermCall("check_file_exists") =>
           call.exc = "none" /\ IsWith(fs, "reg", args.perm)
    /\ PermCall("check_dir_exists") =>
           call.exc = "none" /\ IsWith(fs, "dir", args.perm)
    /\ \A fn \in {"check_file_exists", "check_dir_exists"} :
           PermCall(fn) /\ call.prev.fn = fn /\ call.prev.err = "none" =>
               fs = [before EXCEPT ![DST].perm = args.perm]

\* a directory was made where check_file_exists had made a file with other
\* permission bits
C17_Witness ==
    /\ PermCall("check_dir_exists")
    /\ call.prev.fn = "check_file_exists"
    /\ IsWith(before, "reg", \o640)
    /\ IsWith(fs, "dir", \o766)

\* dst is a symlink to src
Linked(fs_) ==
    DST \in DOMAIN fs_ /\ fs_[DST].kind = "lnk" /\ fs_[DST].data = SRC

\* dst has the owner and group that are asked for
Owned(fs_) ==
    /\ args.uid # None => fs_[DST].uid = args.uid
    /\ args.gid # None => fs_[DST].gid = args.gid

\* C19: after check_link(src, dst) dst is a symlink to src; when it was one
\* already, with the owner and group asked for, nothing is changed and the
\* call returns False; a second identical call returns False.
C19_LinkEnsured ==
    call.fn = "check_link" =>
        /\ Linked(fs)
        /\ Linked(before) /\ Owned(before) =>
               fs = before /\ call.ret = FALSE
        /\ call.run >= 2 => call.ret = FALSE

Public ==
    {"check_copy", "check_link", "check_file_exists", "check_dir_exists",
     "check_not_exists"}

\* C20: a public operation in which a call of the operating system failed
\* raises nothing and returns False.
C20_ErrorsReturnFalse ==
    call.fn \in Public /\ call.err = "EnvironmentError" =>
        call.exc = "none" /\ call.ret = FALSE


(***************************************************************************)
(* check_copy of an object that is no file, symlink or directory: claims.  *)
(***************************************************************************)
\* the object at q is a named pipe
IsFifo(fs_, q) == q \in DOMAIN fs_ /\ fs_[q].kind = "fifo"

\* what was at q is there as it was, and nothing is there if nothing was
KeptAt(q) ==
    IF q \in DOMAIN before THEN q \in DOMAIN fs /\ fs[q] = before[q]
    ELSE q \notin DOMAIN fs

\* nothing stops the walk of dst before it comes to the children of src: dst
\* is a directory or absent, and its attributes can be set
WalkStarts ==
    /\ DST \in DOMAIN before => before[DST].kind = "dir"
    /\ Feasible

\* C21: check_copy of a source that is a named pipe ends in the error of the
\* module and leaves the filesystem as it was; check_copy of a directory
\* that holds a named pipe ends in an error, in that of the module when the
\* walk comes to the pipe, and the pipe's name in dst is left as it was.
C21_UnsupportedKind ==
    call.fn = "check_copy" =>
        /\ IsFifo(before, SRC) =>
               /\ call.exc = "none"
               /\ call.err = "PysysconfError"
               /\ fs = before
        /\ IsFifo(before, join(SRC, <<"c">>)) =>
               /\ call.exc # "none" \/ call.err # "none"
               /\ KeptAt(join(DST, <<"c">>))
               /\ WalkStarts =>
                      call.exc = "none" /\ call.err = "PysysconfError"

\* the walk copied the file before the pipe, stopped at the pipe, and left
\* the symlink that dst has under the pipe's name
C21_Witness ==
    /\ call.fn = "check_copy"
    /\ IsFifo(before, join(SRC, <<"c">>))
    /\ call.err = "PysysconfError"
    /\ join(DST, <<"c">>) \in DOMAIN before
    /\ fs[join(DST, <<"a">>)].data = <<1>>
    /\ before[join(DST, <<"a">>)].data # <<1>>
    /\ KeptAt(join(DST, <<"c">>))
    /\ join(DST, <<"z">>) \notin DOMAIN fs

(***************************************************************************)
(* _chkstat: claims.                                                       *)
(***************************************************************************)
\* a whole label and a component of it are both asked for
Both_Labels == args.se_context # NoneStr /\ HasComponent(args)

\* C22: _chkstat called with se_context and with one of se_user, se_role,
\* se_type, se_level raises PysysconfError, whatever the other arguments
\* and whatever dst is, and changes nothing.
C22_ContextAndComponentRefused ==
    call.fn = "_chkstat" /\ Both_Labels =>
        call.exc = "PysysconfError" /\ fs = before /\ call.ev = <<>>

\* the call was refused although owner, permission bits and label asked for
\* all differ from those of dst
C22_Witness ==
    /\ call.fn = "_chkstat"
    /\ Both_Labels
    /\ call.exc = "PysysconfError"
    /\ DST \in DOMAIN before
    /\ args.uid # None /\ args.uid # before[DST].uid
    /\ args.perm # None /\ args.perm # before[DST].perm
    /\ args.se_context # before[DST].label
    /\ fs = before

\* the call was a public check of one object that ended in an error
FailedOnOne ==
    /\ call.fn \in {"check_copy", "check_link", "check_file_exists",
                    "check_dir_exists"}
    /\ call.fn = "check_copy" =>
           ~(SRC \in DOMAIN before /\ before[SRC].kind = "dir")
    /\ call.err # "none" \/ call.exc # "none"

\* C23: a public check of a single file, directory or link that ends in an
\* error has changed nothing.
C23_AllOrNothing == FailedOnOne => fs = before

(***************************************************************************)
(* check_copy: permission bits, backups and interrupted runs: claims.      *)
(***************************************************************************)
\* the mask of the call for an object of this kind, None when none is given
MaskFor(kind) == IF kind = "dir" THEN args.dmask ELSE args.umask

Masked(perm, mask) == IF mask = None THEN perm ELSE BitAnd(perm, mask)

\* C24: after check_copy the permission bits of dst are perm when it is
\* given, and those of src otherwise, masked by umask when src is no
\* directory and by dmask when it is one.
C24_MaskAppliedToPerm ==
    CopyReturned /\ call.err = "none" =>
        fs[DST].perm =
            Masked(IF args.perm # None THEN args.perm ELSE before[SRC].perm,
                   MaskFor(before[SRC].kind))

\* the object of src that the object at q of dst is copied from
SrcOf(q) == SRC \o SubSeq(q, Len(DST) + 1, Len(q))

SameObject(x, y) == x.kind = y.kind /\ x.data = y.data

\* the call put a copy of a file or symlink of src at q, where dst had an
\* object of another kind or content
ReplacedAt(q) ==
    /\ IsPrefix(DST, q)
    /\ q \in DOMAIN before
    /\ SrcOf(q) \in DOMAIN before
    /\ before[SrcOf(q)].kind \in {"reg", "lnk"}
    /\ ~SameObject(before[q], before[SrcOf(q)])
    /\ q \in DOMAIN fs
    /\ SameObject(fs[q], before[SrcOf(q)])

\* what was at and below q is at and below b as it was
KeptAs(q, b) ==
    /\ \A r \in DOMAIN before :
           IsPrefix(q, r) =>
               /\ Moved(q, b, r) \in DOMAIN fs
               /\ fs[Moved(q, b, r)] = before[r]
    /\ \A r \in DOMAIN fs :
           IsPrefix(b, r) => Moved(b, q, r) \in DOMAIN before

\* C25: when check_copy put a copy of a file or symlink where dst had a
\* different object, with backup the old object, with all below it, is
\* beside the new one under the old name with a time appended; without
\* backup nothing is left of it.
C25_BackupKeepsOldObject ==
    call.fn = "check_copy" =>
        \A q \in DOMAIN before :
            ReplacedAt(q) =>
                IF args.backup
                THEN \E t \in 0..now : KeptAs(q, backup_name(q, t))
                ELSE /\ \A r \in DOMAIN fs : IsPrefix(q, r) => r = q
                     /\ \A t \in 0..now : backup_name(q, t) \notin DOMAIN fs

\* a directory with objects in it was replaced by a file and is kept
C25_Witness ==
    /\ call.fn = "check_copy"
    /\ args.backup
    /\ ReplacedAt(DST)
    /\ Under(before, DST) # {}
    /\ \E t \in 0..now : KeptAs(DST, backup_name(DST, t))

\* every object of src has its like in dst: a directory a directory, a file
\* a file with the same content, a symlink a symlink with the same target
AllCopied(fs_) ==
    \A r \in Below(fs_, SRC) \ {<<>>} :
        /\ DST \o r \in DOMAIN fs_
        /\ fs_[DST \o r].kind = fs_[SRC \o r].kind
        /\ fs_[SRC \o r].kind # "dir" =>
               fs_[DST \o r].data = fs_[SRC \o r].data

\* C26: the check_copy of a directory that follows a run with the same
\* arguments that was killed after some of its calls on the filesystem
\* ends with every object of src in dst, with the same content or target.
C26_InterruptedCopyCompleted ==
    call.fn = "check_copy" /\ call.prev.fn = "killed" =>
        call.exc = "none" /\ call.err = "none" /\ AllCopied(fs)

(***************************************************************************)
(* release_lock without a lock: claim.                                     *)
(***************************************************************************)
\* the last call of p was a release_lock that found no lock file
ReleasedNothing(p) ==
    p \in alive /\ quiet[p] /\ trace[p] = <<"release:ENOENT">>

\* C27: release_lock of a lock that is not held (there is no lock file)
\* ends in an exception: the caller does not go on as after a return.
C27_ReleaseWithoutLockRaises ==
    \A p \in Procs : ReleasedNothing(p) => pc[p] # "idle"

(***************************************************************************)
(* check_not_exists with a test on what is no directory: claim.            *)
(***************************************************************************)
\* C28: check_not_exists(dst, test = t) on a dst that exists and is no
\* directory ends in a PysysconfError that check_not_exists catches: it
\* raises nothing, removes nothing and returns False.
C28_TestOnNonDirectoryCaught ==
    (/\ call.fn = "check_not_exists"
     /\ args.test # "None"
     /\ DST \in DOMAIN before
     /\ before[DST].kind # "dir")
    => /\ call.exc = "none"
       /\ call.err = "PysysconfError"
       /\ fs = before
       /\ call.ret = FALSE

(***************************************************************************)
(* _chkstat: what it returns and how it sets owner and group: claims.      *)
(***************************************************************************)
\* _chkstat got as far as the owner and group of a dst that exists
StatReached ==
    /\ call.fn = "_chkstat"
    /\ DST \in DOMAIN before
    /\ ~Both_Labels
    /\ Feasible

\* C29: _chkstat returns True exactly when it changed owner, group,
\* permission bits or label of some object.
C29_TrueIffModified ==
    call.fn = "_chkstat" /\ call.exc = "none" =>
        (call.ret = TRUE <=> fs # before)

\* the owner or the group asked for is not the one dst has
NeedChown ==
    \/ args.uid # None /\ args.uid # before[DST].uid
    \/ args.gid # None /\ args.gid # before[DST].gid

\* the number of chown calls among the calls sq
RECURSIVE Chowns(_)
Chowns(sq) ==
    IF sq = <<>> THEN 0
    ELSE (IF Head(sq)[1] = "chown" THEN 1 ELSE 0) + Chowns(Tail(sq))

\* C30: when the owner or group asked for differs from that of dst,
\* _chkstat makes one chown that gives dst the owner and group asked for,
\* and keeps the one that is not asked for; otherwise it makes no chown and
\* owner and group of every object stay as they are.
C30_OneChownSetsBoth ==
    StatReached =>
        IF NeedChown
        THEN /\ Chowns(call.ev) = 1
             /\ fs[DST].uid =
                    (IF args.uid # None THEN args.uid ELSE before[DST].uid)
             /\ fs[DST].gid =
                    (IF args.gid # None THEN args.gid ELSE before[DST].gid)
             /\ \A q \in DOMAIN before \ {DST} :
                    fs[q].uid = before[q].uid /\ fs[q].gid = before[q].gid
        ELSE /\ Chowns(call.ev) = 0
             /\ \A q \in DOMAIN before :
                    fs[q].uid = before[q].uid /\ fs[q].gid = before[q].gid

(***************************************************************************)
(* _chkstat of a symlink: claim.                                           *)
(***************************************************************************)
\* C31: _chkstat of a symlink changes owner, group and permission bits of
\* no object but the link, and when it returns the link has the owner and
\* group that were asked for.
C31_LinkItselfReconciled ==
    (/\ call.fn = "_chkstat"
     /\ DST \in DOMAIN before
     /\ before[DST].kind = "lnk")
    => /\ \A q \in DOMAIN before \ {DST} :
              \A f \in {"uid", "gid", "perm"} : fs[q][f] = before[q][f]
       /\ call.exc = "none" => Owned(fs)

(***************************************************************************)
(* _copy_file and _copy_link: when the copy is skipped: claims.            *)
(***************************************************************************)
\* the object at p is of this kind
IsKind(fs_, p, kind) == p \in DOMAIN fs_ /\ fs_[p].kind = kind

\* dst was an object of the kind of src with its content or target
SameBefore == DST \in DOMAIN before /\ SameObject(before[DST], before[SRC])

\* the files that were read for their digest, in the order of the reads
RECURSIVE Digests(_)
Digests(sq) ==
    IF sq = <<>> THEN <<>>
    ELSE (IF Head(sq)[1] = "md5sum" THEN <<Head(sq)[2]>> ELSE <<>>)
             \o Digests(Tail(sq))

\* the copy function for the kind of src was called and raised nothing
LeafCopied ==
    /\ call.exc = "none"
    /\ \/ call.fn = "_copy_file" /\ IsKind(before, SRC, "reg")
       \/ call.fn = "_copy_link" /\ IsKind(before, SRC, "lnk")

\* C32: _copy_file and _copy_link return False and change nothing exactly
\* when dst is of the kind of src with the same content or target, and
\* otherwise put a copy of src in the place of dst and return True;
\* _copy_file reads the two files for their digests exactly when dst is a
\* regular file of the size of src.
C32_SkippedIffEqual ==
    LeafCopied =>
        /\ IF SameBefore THEN call.ret = FALSE /\ fs = before
           ELSE /\ call.ret = TRUE
                /\ SameObject(fs[DST], before[SRC])
                /\ Under(fs, DST) = {}
        /\ Digests(call.ev) =
               (IF /\ call.fn = "_copy_file"
                   /\ IsKind(before, DST, "reg")
                   /\ Len(before[DST].data) = Len(before[SRC].data)
                THEN <<DST, SRC>> ELSE <<>>)

\* a file of the size of src and of other content was read and replaced
C32_Witness ==
    /\ LeafCopied
    /\ call.fn = "_copy_file"
    /\ ~SameBefore
    /\ Digests(call.ev) = <<DST, SRC>>
    /\ call.ret = TRUE
    /\ fs[DST].data = before[SRC].data

(***************************************************************************)
(* check_copy of a regular file: owner, group and permission bits: claim.  *)
(***************************************************************************)
\* check_copy of a regular file returned without an error
FileCopied ==
    CopyReturned /\ call.err = "none" /\ IsKind(before, SRC, "reg")

\* C33: after check_copy of a regular file, owner and group of dst are uid
\* and gid where they are given and those of src otherwise, and without
\* perm the permission bits of dst are those of src, masked by umask when
\* it is given.
C33_FileAttributesFromSrc ==
    FileCopied =>
        /\ fs[DST].uid =
               (IF args.uid # None THEN args.uid ELSE before[SRC].uid)
        /\ fs[DST].gid =
               (IF args.gid # None THEN args.gid ELSE before[SRC].gid)
        /\ args.perm = None =>
               fs[DST].perm = Masked(before[SRC].perm, args.umask)

\* a new dst got the owner and the group of src and the bits of src that
\* the umask lets through
C33_Witness ==
    /\ FileCopied
    /\ DST \notin DOMAIN before
    /\ args.uid = None /\ fs[DST].uid = before[SRC].uid /\ fs[DST].uid # 0
    /\ args.gid = None /\ fs[DST].gid = before[SRC].gid /\ fs[DST].gid # 0
    /\ args.perm = None /\ args.umask # None
    /\ fs[DST].perm = BitAnd(before[SRC].perm, args.umask)
    /\ fs[DST].perm # before[SRC].perm

(***************************************************************************)
(* A src whose kind changed before the copy step: claim.                   *)
(***************************************************************************)
\* the kind of src that each copy step was dispatched for
Expected(fn) ==
    CASE fn = "_copy_file" -> "reg"
      [] fn = "_copy_link" -> "lnk"
      [] fn = "_copy_dir" -> "dir"
      [] OTHER -> "none"

\* a copy step was run on a src that is no longer of the kind it was
\* dispatched for
KindChanged ==
    /\ call.fn \in {"_copy_file", "_copy_link", "_copy_dir"}
    /\ SRC \in DOMAIN before
    /\ before[SRC].kind # Expected(call.fn)

\* C34: when the kind of src changed between the stat that check_copy
\* dispatches on and the copy step, the copy step raises an error and
\* copies nothing.
C34_ChangedKindRaises ==
    KindChanged => call.exc # "none" /\ fs = before

(***************************************************************************)
(* follow_links and a child symlink to a directory: claim.                 *)
(***************************************************************************)
\* the child symlink l of dst
LINK == join(DST, <<"l">>)

\* check_not_exists("dst", test, follow_links = True) was called on a
\* directory whose child l is a symlink to a directory of which the test is
\* false
LinkedDirCall ==
    /\ TestCall
    /\ args.follow_links
    /\ IsKind(before, LINK, "lnk")
    /\ IsKind(before, Resolve(before, LINK), "dir")
    /\ ~Matched(Resolve(before, LINK))

\* C35: with follow_links = True a child symlink to a directory of which the
\* test is false is walked like a directory: the call goes to its end, and
\* the children of dst of which the test is true are removed.
C35_LinkedDirWalked ==
    LinkedDirCall =>
        /\ call.exc = "none" /\ call.err = "none"
        /\ \A q \in Under(before, DST) :
               Len(q) = Len(DST) + 1 /\ before[q].kind # "lnk" /\ Matched(q)
                   => q \notin DOMAIN fs

(***************************************************************************)
(* The walk over the two listings: claim.                                  *)
(***************************************************************************)
Names(sq) == {sq[i] : i \in DOMAIN sq}

\* the turns of the walk that decided what on name
Turns(what, name) ==
    {i \in DOMAIN call.handled : call.handled[i] = <<what, name>>}

Synced(name) == Cardinality(Turns("sync", name))

Passed(name) ==
    Cardinality(Turns("purge", name)) + Cardinality(Turns("skip", name))

\* no name is handled twice, and no name of src is considered for purge
WalkSound ==
    \A name \in Names(call.src_dir) \cup Names(call.dst_dir) :
        /\ Synced(name) + Passed(name) <= 1
        /\ name \in Names(call.src_dir) => Passed(name) = 0

\* at its end the walk has synchronized every name of src and considered
\* every name that only dst has for purge
WalkComplete ==
    WalkEnded =>
        /\ \A name \in Names(call.src_dir) : Synced(name) = 1
        /\ \A name \in Names(call.dst_dir) \ Names(call.src_dir) :
               Passed(name) = 1
        /\ Len(call.handled) =
               Cardinality(Names(call.src_dir) \cup Names(call.dst_dir))

\* C36: the walk of _copy_dir over two sorted listings comes to its end and
\* handles every name of their union exactly once: every name of src is
\* synchronized once, every name that only dst has is considered for purge
\* once, and no name of src is ever purged.
C36_MergeWalk ==
    /\ [](WalkSound /\ WalkComplete)
    /\ <>WalkEnded

\* a walk ended that synchronized a name of both listings and a name of src
\* alone and purged a name of dst alone
C36_Witness ==
    /\ WalkEnded
    /\ \E name \in Names(call.src_dir) \cap Names(call.dst_dir) :
          Synced(name) = 1
    /\ \E name \in Names(call.src_dir) \ Names(call.dst_dir) :
          Synced(name) = 1
    /\ \E name \in Names(call.dst_dir) \ Names(call.src_dir) :
          Turns("purge", name) # {}

(***************************************************************************)
(* Removal and symlinks: claim.                                            *)
(***************************************************************************)
\* q is as it was before the call
Kept(q) == q \in DOMAIN fs /\ fs[q] = before[q]

\* the symlink l of dst is no longer at its place
LinkRemoved ==
    /\ call.fn = "check_not_exists"
    /\ IsKind(before, LINK, "lnk")
    /\ LINK \notin DOMAIN fs

Tree(fs_, root) == {q \in DOMAIN fs_ : IsPrefix(root, q)}

\* C38: check_copy creates, removes, renames and changes nothing at or
\* below src, whatever its options and whatever dst was (src and dst not
\* being inside one another).
C38_SrcUntouched ==
    call.fn = "check_copy" =>
        /\ Tree(fs, SRC) = Tree(before, SRC)
        /\ \A q \in Tree(before, SRC) : fs[q] = before[q]

\* a tree was copied over another one with purge and explicit attributes:
\* dst changed and src did not
C38_Witness ==
    /\ CopyReturned
    /\ call.ret = TRUE
    /\ fs # before
    /\ args.purge
    /\ Under(before, SRC) # {}
    /\ Under(before, DST) # {}
    /\ \A q \in Tree(before, SRC) : Kept(q)

(***************************************************************************)
(* A public function that returns False: claim.                            *)
(***************************************************************************)
\* the call was one of check_file_exists, check_dir_exists, check_link and
\* check_not_exists without a test
Ensuring ==
    \/ call.fn \in {"check_file_exists", "check_dir_exists", "check_link"}
    \/ call.fn = "check_not_exists" /\ args.test = "None"

\* C39: when check_file_exists, check_dir_exists, check_link or
\* check_not_exists without a test returns False, the filesystem is as it
\* was before the call, also when the call caught an error.
C39_FalseMeansUnchanged ==
    Ensuring /\ call.exc = "none" /\ call.ret = FALSE => fs = before

=============================================================================
